---------------------------- MODULE Spec2Model ----------------------------
(***************************************************************************)
(* HandPong: the game engine (src/src/core/game_engine.py), its entities   *)
(* (paddle.py, ball.py), the math task system (math_system.py), the menu   *)
(* (ui/menu_system.py) and the main loop (main.py).                        *)
(*                                                                         *)
(* Units.  Time (time.time(), dt, every duration) is counted in tenths of  *)
(* a second.  Paddle rectangles are pygame.Rect values, whole pixels.  The *)
(* ball's x, y, vx, vy are floats in the source and are counted here in    *)
(* tenths of a pixel (SubPx converts).                                     *)
(***************************************************************************)
EXTENDS Integers, Sequences, FiniteSets, TLC

\* ------------------------------------------------------------- config.py
WINDOW_HEIGHT == 1080
GAME_AREA_WIDTH == 1200
GAME_AREA_HEIGHT == 900
GAME_AREA_X == 50
GAME_AREA_Y == (WINDOW_HEIGHT - GAME_AREA_HEIGHT) \div 2
PADDLE_WIDTH == 25
PADDLE_HEIGHT == 140
WIN_SCORE == 5
BALL_START_SPEED == 15
TIME_LIMIT == 1200
MATH_TASK_INTERVAL == 250
POWERUP_DURATION == 150
MENU_TRANSITION_DELAY == 2
MENU_HOLD_TIME == 15
PAUSE_SELECTION_TIME == 20
\* MathSystem.task_duration
TASK_DURATION == 100
\* the literal height Paddle.apply_powerup gives a trampoline paddle
TRAMPOLINE_HEIGHT == 120

BALL_RADIUS == 12
BALL_MAX_SPEED == 25
HITS_PER_LEVEL == 5
SPEED_INCREMENT_PER_LEVEL == 2
\* _reflect_ball: current_speed *= 1.7, in tenths
TRAMPOLINE_BOOST == 17
\* _reflect_ball: bounce_angle = offset * 50, in degrees
BOUNCE_ANGLE == 50
\* config.PADDLE_ANGLE_UP, PADDLE_ANGLE_DOWN (whole degrees) and the default
\* deadzone_range of map_angle_to_paddle_y
PADDLE_ANGLE_UP == 100
PADDLE_ANGLE_DOWN == 250
DEADZONE_MIN == 175
DEADZONE_MAX == 185

\* config.PAUSE_ACTIVATION_TIME (tenths of a second), DOMINANT_HAND,
\* PAUSE_TOGGLE_ENABLED
PAUSE_ACTIVATION_TIME == 15
DOMINANT_HAND == "Right"
PAUSE_TOGGLE_ENABLED == TRUE
\* HandController.__init__: current_angle = 140.0 (tenths of a degree) and
\* the smoother's alpha = 0.2 (in 1/10000)
START_ANGLE == 1400
START_ALPHA == 2000

\* -------------------------------------------------------------- bounds
\* the clock of the match-level runs stops advancing here
MaxTime == 1900
\* the clock of the powerup-level runs stops advancing here
MaxPowerTime == 610
\* the main loop's clock stops advancing here
MaxLoopTime == 70
\* the reading of time.time() when the program starts
Epoch == 10
\* paddle hits followed in one match of the rally-level runs
MaxHits == 31
\* the clock's last reading in the equation runs
MaxEquationTime == 460
\* camera frames processed in the hand-controller runs
MaxFrames == 4
\* paddle hits followed in one match of the edge-hit runs
MaxEdgeHits == 3
\* Ball.update calls per respawn in the powerup-level runs
PowerBallSteps == 1
\* the ghost-ball runs stop at this time (tenths of a second)
MaxGhostTime == 268
\* the task runs' clock stops advancing here
MaxTaskTime == 700

SubPx(n) == n * 10

VARIABLES
    state, game_mode, player, ai, ball, math_sys, particles, level,
    start_time, game_time_str, winner_text, last_math_time, sudden_death,
    total_hits, ball_current_base_speed,
    menu,       \* MenuSystem: selection_timer, selected_item, ignore_timer
    running,    \* run_game_loop's flag; FALSE once the loop has ended
    now,        \* the wall clock, time.time()
    hand,       \* HandController, its last returned dict (out) and frame count
    ev          \* the last operation and the branch it took

vars == << state, game_mode, player, ai, ball, math_sys, particles, level,
           start_time, game_time_str, winner_text, last_math_time,
           sudden_death, total_hits, ball_current_base_speed, menu,
           running, now, hand, ev >>

engine_vars == << state, game_mode, player, ai, ball, math_sys, particles,
                  level, start_time, game_time_str, winner_text,
                  last_math_time, sudden_death, total_hits,
                  ball_current_base_speed >>

\* --------------------------------------------------------------- Paddle
\* Paddle.__init__: rect at (x, GAME_AREA_Y), no powerup
NewPaddle(is_ai) ==
    [ y |-> GAME_AREA_Y, height |-> PADDLE_HEIGHT, score |-> 0,
      is_ai |-> is_ai,
      active_powerup_text |-> "None", powerup_end_time |-> 0,
      is_trampoline |-> FALSE, has_agility |-> FALSE,
      trail_history |-> << >> ]

\* Paddle.clear_powerups
clear_powerups(p) ==
    [ p EXCEPT !.active_powerup_text = "None",
               !.height = PADDLE_HEIGHT,
               !.is_trampoline = FALSE,
               !.has_agility = FALSE ]

\* Paddle.reset: rect.centery = c moves the top to c - height // 2
paddle_reset(p) ==
    LET q == clear_powerups([ p EXCEPT !.score = 0 ])
    IN  [ q EXCEPT !.y = (GAME_AREA_Y + GAME_AREA_HEIGHT \div 2) - q.height \div 2,
                   !.trail_history = << >> ]

\* Paddle.update that on expiry drops the text and nothing else
paddle_update_text_only(p, current_time) ==
    IF p.active_powerup_text # "None" /\ current_time > p.powerup_end_time
    THEN [ p EXCEPT !.active_powerup_text = "None" ]
    ELSE p

\* Paddle.update
paddle_update(p, current_time) ==
    IF p.active_powerup_text # "None" /\ current_time > p.powerup_end_time
    THEN clear_powerups(p)
    ELSE p

\* Paddle.apply_powerup without the leading clear_powerups (a stacking slip)
apply_powerup_stacking(p, ptype, name, duration, current_time) ==
    LET q == [ p EXCEPT !.active_powerup_text = name,
                        !.powerup_end_time = current_time + duration ]
    IN  CASE ptype = "enlarge"    -> [ q EXCEPT !.height = (PADDLE_HEIGHT * 15) \div 10 ]
          [] ptype = "shrink"     -> [ q EXCEPT !.height = (PADDLE_HEIGHT * 5) \div 10 ]
          [] ptype = "trampoline" -> [ q EXCEPT !.is_trampoline = TRUE,
                                                !.height = TRAMPOLINE_HEIGHT ]
          [] ptype = "agility"    -> [ q EXCEPT !.has_agility = TRUE ]
          [] OTHER                -> q

\* Paddle.apply_powerup
apply_powerup(p, ptype, name, duration, current_time) ==
    LET q == [ clear_powerups(p) EXCEPT
                   !.active_powerup_text = name,
                   !.powerup_end_time = current_time + duration ]
    IN  CASE ptype = "enlarge"    -> [ q EXCEPT !.height = (PADDLE_HEIGHT * 15) \div 10 ]
          [] ptype = "shrink"     -> [ q EXCEPT !.height = (PADDLE_HEIGHT * 5) \div 10 ]
          [] ptype = "trampoline" -> [ q EXCEPT !.is_trampoline = TRUE,
                                                !.height = TRAMPOLINE_HEIGHT ]
          [] ptype = "agility"    -> [ q EXCEPT !.has_agility = TRUE ]
          [] OTHER                -> q

\* the paddles' rect.x (GameEngine.__init__); no method changes it
player_x == GAME_AREA_X + 30
ai_x == GAME_AREA_X + GAME_AREA_WIDTH - 30 - PADDLE_WIDTH

\* int() of a number given in units of 1/d: truncation towards zero
TruncDiv(n, d) == IF n >= 0 THEN n \div d ELSE -((-n) \div d)

\* utils.clamp
clamp(value, min_val, max_val) ==
    LET low == IF value < max_val THEN value ELSE max_val
    IN  IF min_val > low THEN min_val ELSE low

\* Paddle.move; target_y is a float, given in tenths of a pixel.  The
\* float assigned to rect.y is stored as an int (truncated).  The trail
\* keeps the copied rects by their y and height.
paddle_move(p, target_y) ==
    LET min_y == SubPx(GAME_AREA_Y)
        max_y == SubPx(GAME_AREA_Y + GAME_AREA_HEIGHT - p.height)
        t  == clamp(target_y, min_y, max_y)
        y1 == IF p.is_ai
              THEN TruncDiv(100 * t - 15 * (SubPx(p.y) - t), 1000)
              ELSE TruncDiv(t, 10)
        q  == [ p EXCEPT !.y = y1 ]
        tr == Append(p.trail_history, << y1, p.height >>)
    IN  IF p.has_agility
        THEN [ q EXCEPT !.trail_history =
                   IF Len(tr) > 12 THEN Tail(tr) ELSE tr ]
        ELSE [ q EXCEPT !.trail_history = << >> ]

\* utils.map_angle_to_paddle_y that maps the way down onto the whole
\* playfield height instead of game_height - paddle_height
map_angle_to_paddle_y_full_height(angle_deg, game_height, paddle_height, angle_up, angle_down) ==
    LET a == angle_deg % 360
        max_y == game_height - paddle_height
        center_y == max_y * 5
    IN  IF DEADZONE_MIN <= a /\ a <= DEADZONE_MAX
        THEN << center_y, TRUE >>
        ELSE IF angle_up <= a /\ a < 180
        THEN << ((a - angle_up) * center_y) \div (180 - angle_up), FALSE >>
        ELSE IF 180 < a /\ a <= angle_down
        THEN << ((a - 180) * SubPx(game_height) + (angle_down - a) * center_y)
                    \div (angle_down - 180), FALSE >>
        ELSE IF a < angle_up
        THEN << 0, FALSE >>
        ELSE << SubPx(game_height), FALSE >>

\* utils.map_angle_to_paddle_y with the default deadzone_range, for an
\* angle in whole degrees: the pair (paddle_y, is_in_deadzone), paddle_y in
\* tenths of a pixel (rounded down)
map_angle_to_paddle_y(angle_deg, game_height, paddle_height, angle_up, angle_down) ==
    LET a == angle_deg % 360
        max_y == game_height - paddle_height
        center_y == max_y * 5
    IN  IF DEADZONE_MIN <= a /\ a <= DEADZONE_MAX
        THEN << center_y, TRUE >>
        ELSE IF angle_up <= a /\ a < 180
        THEN << ((a - angle_up) * center_y) \div (180 - angle_up), FALSE >>
        ELSE IF 180 < a /\ a <= angle_down
        THEN << ((a - 180) * SubPx(max_y) + (angle_down - a) * center_y)
                    \div (angle_down - 180), FALSE >>
        ELSE IF a < angle_up
        THEN << 0, FALSE >>
        ELSE << SubPx(max_y), FALSE >>

\* ----------------------------------------------------------------- Ball
\* Ball.reset: back to the centre; vx, vy redrawn; the modifiers stay
ball_reset(b, direction, vy0) ==
    [ b EXCEPT !.x = SubPx(GAME_AREA_X + GAME_AREA_WIDTH \div 2),
               !.y = SubPx(GAME_AREA_Y + GAME_AREA_HEIGHT \div 2),
               !.vx = SubPx(BALL_START_SPEED) * direction,
               !.vy = vy0 ]

\* Ball.__init__
NewBall(direction, vy0) ==
    ball_reset([ x |-> 0, y |-> 0, vx |-> 0, vy |-> 0,
                is_tiny |-> FALSE, is_ghost |-> FALSE,
                ghost_visible |-> TRUE, modifier_end_time |-> 0 ],
              direction, vy0)

\* Ball.set_ghost that forgets to switch tiny off
set_ghost_keep_tiny(b, duration, current_time) ==
    [ b EXCEPT !.is_ghost = TRUE,
               !.modifier_end_time = current_time + duration ]

\* Ball.set_ghost
set_ghost(b, duration, current_time) ==
    [ b EXCEPT !.is_ghost = TRUE, !.is_tiny = FALSE,
               !.modifier_end_time = current_time + duration ]

\* Ball.set_tiny
set_tiny(b, duration, current_time) ==
    [ b EXCEPT !.is_tiny = TRUE, !.is_ghost = FALSE,
               !.modifier_end_time = current_time + duration ]

\* Ball.update that puts a ball that reached a wall on the wall itself
ball_update_on_wall(b, current_time) ==
    LET e  == IF current_time > b.modifier_end_time
              THEN [ b EXCEPT !.is_tiny = FALSE, !.is_ghost = FALSE,
                              !.ghost_visible = TRUE ]
              ELSE b
        x1 == e.x + e.vx
        y1 == e.y + e.vy
        top == SubPx(GAME_AREA_Y)
        bot == SubPx(GAME_AREA_Y + GAME_AREA_HEIGHT)
        m  == IF y1 <= top
              THEN [ e EXCEPT !.x = x1, !.y = top, !.vy = -e.vy ]
              ELSE IF y1 >= bot
              THEN [ e EXCEPT !.x = x1, !.y = bot, !.vy = -e.vy ]
              ELSE [ e EXCEPT !.x = x1, !.y = y1 ]
    IN  [ m EXCEPT !.ghost_visible =
              IF m.is_ghost THEN ((6 * current_time) \div 10) % 2 = 0 ELSE TRUE ]

\* Ball.update: modifier expiry, integration, wall bounce, ghost flicker
\* (int(current_time * 6) % 2 with current_time in tenths of a second)
ball_update(b, current_time) ==
    LET e  == IF current_time > b.modifier_end_time
              THEN [ b EXCEPT !.is_tiny = FALSE, !.is_ghost = FALSE,
                              !.ghost_visible = TRUE ]
              ELSE b
        x1 == e.x + e.vx
        y1 == e.y + e.vy
        top == SubPx(GAME_AREA_Y)
        bot == SubPx(GAME_AREA_Y + GAME_AREA_HEIGHT)
        m  == IF y1 <= top
              THEN [ e EXCEPT !.x = x1, !.y = top + SubPx(1), !.vy = -e.vy ]
              ELSE IF y1 >= bot
              THEN [ e EXCEPT !.x = x1, !.y = bot - SubPx(1), !.vy = -e.vy ]
              ELSE [ e EXCEPT !.x = x1, !.y = y1 ]
    IN  [ m EXCEPT !.ghost_visible =
              IF m.is_ghost THEN ((6 * current_time) \div 10) % 2 = 0 ELSE TRUE ]


\* Ball.get_draw_rect, in whole pixels
get_draw_rect(b) ==
    LET radius == IF b.is_tiny THEN BALL_RADIUS \div 2 ELSE BALL_RADIUS
    IN  [ left |-> TruncDiv(b.x, 10) - radius,
          top |-> TruncDiv(b.y, 10) - radius,
          right |-> TruncDiv(b.x, 10) + radius,
          bottom |-> TruncDiv(b.y, 10) + radius ]

\* a paddle's pygame.Rect
paddle_rect(p, x) ==
    [ left |-> x, top |-> p.y, right |-> x + PADDLE_WIDTH,
      bottom |-> p.y + p.height ]

\* pygame.Rect.colliderect
colliderect(a, b) ==
    /\ a.left < b.right /\ a.right > b.left
    /\ a.top < b.bottom /\ a.bottom > b.top

\* ----------------------------------------------------------- MathSystem
\* MathSystem.__init__; the empty string is the empty sequence
NewMathSystem ==
    [ active |-> FALSE, task_start_time |-> 0, task_duration |-> TASK_DURATION,
      equation_string |-> << >>, correct_answer |-> 0, used_equations |-> {} ]

\* MathSystem.reset
math_reset(ms) ==
    [ ms EXCEPT !.active = FALSE, !.task_start_time = 0,
                !.equation_string = << >>, !.correct_answer = 0,
                !.used_equations = {} ]

\* the generator's "no result" (None)
NoResult == -1000

\* MathSystem._calculate
calculate(x, y, op) ==
    CASE op = "+" -> x + y
      [] op = "-" -> x - y
      [] op = "*" -> x * y
      [] op = "/" -> IF y = 0 \/ x % y # 0 THEN NoResult ELSE x \div y
      [] OTHER    -> NoResult

\* MathSystem._generate_two_operands that keeps a dividend its divisor does
\* not divide
generate_two_operands_floor(a, b, op, r) ==
    CASE op = "+" -> << << a, "+", b >>, a + b >>
      [] op = "-" -> << << a, "-", b >>, a - b >>
      [] op = "*" -> << << a, "*", b >>, a * b >>
      [] OTHER    -> << << a, "/", b >>, a \div b >>

\* MathSystem._generate_two_operands; a, b, op and r are its random draws.
\* The display f"{a} {op} {b}" is the sequence << a, op, b >>.
generate_two_operands(a, b, op, r) ==
    CASE op = "+" -> << << a, "+", b >>, a + b >>
      [] op = "-" -> << << a, "-", b >>, a - b >>
      [] op = "*" -> << << a, "*", b >>, a * b >>
      [] OTHER    ->
            LET a1 == IF b = 0 \/ a % b # 0 THEN b * r ELSE a
            IN  << << a1, "/", b >>, a1 \div b >>

\* MathSystem._generate_three_operands; d holds the random draws of one
\* attempt (a, b, c, op1, op2 and, for the fallback, a2, b2, opf, r)
generate_three_operands(d) ==
    LET intermediate == calculate(d.a, d.b, d.op1)
        result == calculate(intermediate, d.c, d.op2)
    IN  IF intermediate = NoResult
        THEN generate_two_operands(d.a2, d.b2, d.opf, d.r)
        ELSE IF result = NoResult
        THEN generate_two_operands(d.a2, d.b2, d.opf, d.r)
        ELSE << << d.a, d.op1, d.b, d.op2, d.c >>, result >>

\* MathSystem._generate_equation
generate_equation(d) ==
    IF d.type = "two_operands"
    THEN generate_two_operands(d.a, d.b, d.opf, d.r)
    ELSE generate_three_operands(d)

\* generate_task's attempt cap
max_attempts == 100

Min(a, b) == IF a < b THEN a ELSE b

\* MathSystem.generate_task that accepts an unused equation whatever its
\* result
generate_task_any_result(ms, current_time, draws) ==
    LET attempt(i) == generate_equation(draws[Min(i, Len(draws))])
        passes(i)  == attempt(i)[1] \notin ms.used_equations
    IN  IF \E i \in 1..max_attempts : passes(i)
        THEN LET first == CHOOSE i \in 1..max_attempts :
                              passes(i) /\ \A j \in 1..(i - 1) : ~passes(j)
                 eq == attempt(first)
             IN  [ ms |-> [ ms EXCEPT !.equation_string = eq[1],
                                      !.correct_answer = eq[2],
                                      !.used_equations = @ \cup { eq[1] },
                                      !.active = TRUE,
                                      !.task_start_time = current_time ],
                   ok |-> TRUE ]
        ELSE [ ms |-> ms, ok |-> FALSE ]

\* MathSystem.generate_task that does not look at used_equations
generate_task_repeating(ms, current_time, draws) ==
    LET attempt(i) == generate_equation(draws[Min(i, Len(draws))])
        passes(i)  == /\ 0 <= attempt(i)[2]
                      /\ attempt(i)[2] <= 5
    IN  IF \E i \in 1..max_attempts : passes(i)
        THEN LET first == CHOOSE i \in 1..max_attempts :
                              passes(i) /\ \A j \in 1..(i - 1) : ~passes(j)
                 eq == attempt(first)
             IN  [ ms |-> [ ms EXCEPT !.equation_string = eq[1],
                                      !.correct_answer = eq[2],
                                      !.used_equations = @ \cup { eq[1] },
                                      !.active = TRUE,
                                      !.task_start_time = current_time ],
                   ok |-> TRUE ]
        ELSE [ ms |-> ms, ok |-> FALSE ]

\* MathSystem.generate_task: the first of max_attempts attempts whose
\* equation is unused and has a result in 0..5 becomes the task.  draws is
\* the stream of random draws: attempt i uses draws[i], and every attempt
\* past the end of draws repeats its last element.  The result is the new
\* MathSystem and the returned flag.
generate_task(ms, current_time, draws) ==
    LET attempt(i) == generate_equation(draws[Min(i, Len(draws))])
        passes(i)  == /\ attempt(i)[1] \notin ms.used_equations
                      /\ 0 <= attempt(i)[2]
                      /\ attempt(i)[2] <= 5
    IN  IF \E i \in 1..max_attempts : passes(i)
        THEN LET first == CHOOSE i \in 1..max_attempts :
                              passes(i) /\ \A j \in 1..(i - 1) : ~passes(j)
                 eq == attempt(first)
             IN  [ ms |-> [ ms EXCEPT !.equation_string = eq[1],
                                      !.correct_answer = eq[2],
                                      !.used_equations = @ \cup { eq[1] },
                                      !.active = TRUE,
                                      !.task_start_time = current_time ],
                   ok |-> TRUE ]
        ELSE [ ms |-> ms, ok |-> FALSE ]

\* MathSystem.check_answer that does not look at active
check_answer_stale(ms, player_answer) == player_answer = ms.correct_answer

\* MathSystem.check_answer
check_answer(ms, player_answer) ==
    IF ~ms.active THEN FALSE ELSE player_answer = ms.correct_answer

\* MathSystem.get_time_left
get_time_left(ms, current_time) ==
    IF ~ms.active THEN 0
    ELSE ms.task_duration - (current_time - ms.task_start_time)


\* ----------------------------------------------------------- GameEngine
\* the f"{mins:02}:{secs:02}" text as the pair << mins, secs >>
FormatTime(elapsed) == << elapsed \div 600, (elapsed % 600) \div 10 >>

\* the text "SUDDEN DEATH" of game_time_str
SUDDEN_DEATH_TEXT == << -1, -1 >>

\* GameEngine._reset_ball_with_speed; dir_x is random.choice([-1, 1]) and
\* dir_y random.uniform(-0.5, 0.5), given in tenths
reset_ball_with_speed(b, base_speed, dir_x, dir_y) ==
    [ ball_reset(b, dir_x, 0) EXCEPT
          !.vx = SubPx(base_speed) * dir_x,
          !.vy = (SubPx(base_speed) * dir_y) \div 10 ]

\* GameEngine._update_time_and_check_win that ends the match only after
\* the limit has been passed (> for >=)
update_time_and_check_win_strict(curr_time) ==
    LET elapsed == curr_time - start_time
    IN  IF elapsed > TIME_LIMIT
        THEN IF player.score # ai.score
             THEN [ state |-> "game_over", sudden_death |-> sudden_death,
                    game_time_str |-> FormatTime(elapsed),
                    winner_text |-> IF player.score > ai.score
                                    THEN "PLAYER 1 WINS" ELSE "PLAYER 2 WINS" ]
             ELSE [ state |-> state, sudden_death |-> TRUE,
                    game_time_str |-> SUDDEN_DEATH_TEXT,
                    winner_text |-> winner_text ]
        ELSE [ state |-> state, sudden_death |-> sudden_death,
               game_time_str |-> FormatTime(elapsed),
               winner_text |-> winner_text ]

\* GameEngine._update_time_and_check_win that ends a tied match at the
\* time limit too
update_time_and_check_win_tied(curr_time) ==
    LET elapsed == curr_time - start_time
    IN  IF elapsed >= TIME_LIMIT
        THEN [ state |-> "game_over", sudden_death |-> sudden_death,
               game_time_str |-> FormatTime(elapsed),
               winner_text |-> IF player.score > ai.score
                               THEN "PLAYER 1 WINS" ELSE "PLAYER 2 WINS" ]
        ELSE [ state |-> state, sudden_death |-> sudden_death,
               game_time_str |-> FormatTime(elapsed),
               winner_text |-> winner_text ]

\* GameEngine._update_time_and_check_win: the fields it leaves behind
update_time_and_check_win(curr_time) ==
    LET elapsed == curr_time - start_time
    IN  IF elapsed >= TIME_LIMIT
        THEN IF player.score # ai.score
             THEN [ state |-> "game_over", sudden_death |-> sudden_death,
                    game_time_str |-> FormatTime(elapsed),
                    winner_text |-> IF player.score > ai.score
                                    THEN "PLAYER 1 WINS" ELSE "PLAYER 2 WINS" ]
             ELSE [ state |-> state, sudden_death |-> TRUE,
                    game_time_str |-> SUDDEN_DEATH_TEXT,
                    winner_text |-> winner_text ]
        ELSE [ state |-> state, sudden_death |-> sudden_death,
               game_time_str |-> FormatTime(elapsed),
               winner_text |-> winner_text ]

\* GameEngine._check_score (with _end_sudden_death) on the paddles pl, op,
\* the ball b, the base speed, sudden_death, state and winner_text given;
\* dir_x and dir_y are the draws of the respawn
check_score_on(pl, op, b, base, sd0, st, wt, dir_x, dir_y) ==
    LET left  == b.x < SubPx(GAME_AREA_X - 20)
        right == ~left /\ b.x > SubPx(GAME_AREA_X + GAME_AREA_WIDTH + 20)
        a1 == IF left THEN [ op EXCEPT !.score = @ + 1 ] ELSE op
        p1 == IF right THEN [ pl EXCEPT !.score = @ + 1 ] ELSE pl
        b1 == IF left \/ right
              THEN reset_ball_with_speed(b, base, dir_x, dir_y)
              ELSE b
        sd == (left \/ right) /\ sd0
        won == p1.score >= WIN_SCORE \/ a1.score >= WIN_SCORE
    IN  [ player |-> p1, ai |-> a1, ball |-> b1,
          state |-> IF sd \/ won THEN "game_over" ELSE st,
          winner_text |-> IF won
                          THEN IF p1.score > a1.score
                               THEN "PLAYER 1 WINS" ELSE "PLAYER 2 WINS"
                          ELSE IF sd
                          THEN IF left THEN "PLAYER 2 WINS" ELSE "PLAYER 1 WINS"
                          ELSE wt,
          side |-> IF left THEN "left" ELSE IF right THEN "right" ELSE "none" ]

\* GameEngine._check_score without the sudden-death branch
check_score_no_sudden_death(dir_x, dir_y) ==
    LET left  == ball.x < SubPx(GAME_AREA_X - 20)
        right == ~left /\ ball.x > SubPx(GAME_AREA_X + GAME_AREA_WIDTH + 20)
        a1 == IF left THEN [ ai EXCEPT !.score = @ + 1 ] ELSE ai
        p1 == IF right THEN [ player EXCEPT !.score = @ + 1 ] ELSE player
        b1 == IF left \/ right
              THEN reset_ball_with_speed(ball, ball_current_base_speed, dir_x, dir_y)
              ELSE ball
        won == p1.score >= WIN_SCORE \/ a1.score >= WIN_SCORE
    IN  [ player |-> p1, ai |-> a1, ball |-> b1,
          state |-> IF won THEN "game_over" ELSE state,
          winner_text |-> IF won
                          THEN IF p1.score > a1.score
                               THEN "PLAYER 1 WINS" ELSE "PLAYER 2 WINS"
                          ELSE winner_text,
          side |-> IF left THEN "left" ELSE IF right THEN "right" ELSE "none" ]

\* GameEngine._check_score that reads the win threshold one point late
check_score_late(dir_x, dir_y) ==
    LET left  == ball.x < SubPx(GAME_AREA_X - 20)
        right == ~left /\ ball.x > SubPx(GAME_AREA_X + GAME_AREA_WIDTH + 20)
        a1 == IF left THEN [ ai EXCEPT !.score = @ + 1 ] ELSE ai
        p1 == IF right THEN [ player EXCEPT !.score = @ + 1 ] ELSE player
        b1 == IF left \/ right
              THEN reset_ball_with_speed(ball, ball_current_base_speed, dir_x, dir_y)
              ELSE ball
        sd == (left \/ right) /\ sudden_death
        won == p1.score > WIN_SCORE \/ a1.score > WIN_SCORE
    IN  [ player |-> p1, ai |-> a1, ball |-> b1,
          state |-> IF sd \/ won THEN "game_over" ELSE state,
          winner_text |-> IF won
                          THEN IF p1.score > a1.score
                               THEN "PLAYER 1 WINS" ELSE "PLAYER 2 WINS"
                          ELSE IF sd
                          THEN IF left THEN "PLAYER 2 WINS" ELSE "PLAYER 1 WINS"
                          ELSE winner_text,
          side |-> IF left THEN "left" ELSE IF right THEN "right" ELSE "none" ]

\* GameEngine._check_score that credits the side the ball left on
check_score_own_side(dir_x, dir_y) ==
    LET left  == ball.x < SubPx(GAME_AREA_X - 20)
        right == ~left /\ ball.x > SubPx(GAME_AREA_X + GAME_AREA_WIDTH + 20)
        a1 == IF right THEN [ ai EXCEPT !.score = @ + 1 ] ELSE ai
        p1 == IF left THEN [ player EXCEPT !.score = @ + 1 ] ELSE player
        b1 == IF left \/ right
              THEN reset_ball_with_speed(ball, ball_current_base_speed, dir_x, dir_y)
              ELSE ball
        sd == (left \/ right) /\ sudden_death
        won == p1.score >= WIN_SCORE \/ a1.score >= WIN_SCORE
    IN  [ player |-> p1, ai |-> a1, ball |-> b1,
          state |-> IF sd \/ won THEN "game_over" ELSE state,
          winner_text |-> IF won
                          THEN IF p1.score > a1.score
                               THEN "PLAYER 1 WINS" ELSE "PLAYER 2 WINS"
                          ELSE IF sd
                          THEN IF left THEN "PLAYER 2 WINS" ELSE "PLAYER 1 WINS"
                          ELSE winner_text,
          side |-> IF left THEN "left" ELSE IF right THEN "right" ELSE "none" ]

\* GameEngine._check_score that never ends the match on WIN_SCORE
check_score_endless(dir_x, dir_y) ==
    LET left  == ball.x < SubPx(GAME_AREA_X - 20)
        right == ~left /\ ball.x > SubPx(GAME_AREA_X + GAME_AREA_WIDTH + 20)
        a1 == IF left THEN [ ai EXCEPT !.score = @ + 1 ] ELSE ai
        p1 == IF right THEN [ player EXCEPT !.score = @ + 1 ] ELSE player
        b1 == IF left \/ right
              THEN reset_ball_with_speed(ball, ball_current_base_speed, dir_x, dir_y)
              ELSE ball
        sd == (left \/ right) /\ sudden_death
    IN  [ player |-> p1, ai |-> a1, ball |-> b1,
          state |-> IF sd THEN "game_over" ELSE state,
          winner_text |-> IF sd
                          THEN IF left THEN "PLAYER 2 WINS" ELSE "PLAYER 1 WINS"
                          ELSE winner_text,
          side |-> IF left THEN "left" ELSE IF right THEN "right" ELSE "none" ]

\* GameEngine._check_score with _end_sudden_death: the fields it leaves
\* behind, and the side the ball left on
check_score(dir_x, dir_y) ==
    check_score_on(player, ai, ball, ball_current_base_speed, sudden_death,
                   state, winner_text, dir_x, dir_y)


\* math.sin of 0 .. 90 whole degrees, in thousandths (rounded down)
SinTable ==
    << 0, 17, 34, 52, 69, 87, 104, 121, 139, 156,
       173, 190, 207, 224, 241, 258, 275, 292, 309, 325,
       342, 358, 374, 390, 406, 422, 438, 453, 469, 484,
       500, 515, 529, 544, 559, 573, 587, 601, 615, 629,
       642, 656, 669, 681, 694, 707, 719, 731, 743, 754,
       766, 777, 788, 798, 809, 819, 829, 838, 848, 857,
       866, 874, 882, 891, 898, 906, 913, 920, 927, 933,
       939, 945, 951, 956, 961, 965, 970, 974, 978, 981,
       984, 987, 990, 992, 994, 996, 997, 998, 999, 999,
       1000 >>

\* math.sin and math.cos of an angle in whole degrees, -90 .. 90, in
\* thousandths
sin1000(deg) == IF deg >= 0 THEN SinTable[deg + 1] ELSE -SinTable[1 - deg]
cos1000(deg) == IF deg >= 0 THEN SinTable[91 - deg] ELSE SinTable[91 + deg]

\* GameEngine._spawn_collision_particles, _spawn_trampoline_effect
spawn_collision_particles(ps) == ps \o [ i \in 1..8 |-> 20 ]
spawn_trampoline_effect(ps) == ps \o [ i \in 1..12 |-> 20 ]

\* the bounce angle of _reflect_ball, offset * 50 with offset =
\* (ball.y - centery) / (height / 2), in thousandths of a degree
bounce_angle(p, b) ==
    TruncDiv((b.y - SubPx(p.y + p.height \div 2)) * 2 * BOUNCE_ANGLE * 100,
             p.height)

\* GameEngine._reflect_ball whose level-up adds to the base speed without
\* the min against BALL_MAX_SPEED
reflect_ball_uncapped(p, direction, hits, lvl, base, b, ps) ==
    LET hits1 == hits + 1
        up    == hits1 % HITS_PER_LEVEL = 0
        lvl1  == IF up THEN lvl + 1 ELSE lvl
        base1 == IF up THEN base + SPEED_INCREMENT_PER_LEVEL ELSE base
        current_speed == IF p.is_trampoline
                         THEN Min(base1 * TRAMPOLINE_BOOST, SubPx(BALL_MAX_SPEED))
                         ELSE SubPx(base1)
        deg == TruncDiv(bounce_angle(p, b), 1000)
        vx0 == TruncDiv(current_speed * cos1000(deg), 1000) * direction
        vx1 == IF (direction = 1 /\ vx0 < 0) \/ (direction = -1 /\ vx0 > 0)
               THEN -vx0 ELSE vx0
    IN  [ total_hits |-> hits1, level |-> lvl1,
          ball_current_base_speed |-> base1,
          ball |-> [ b EXCEPT !.vx = vx1,
                              !.vy = TruncDiv(current_speed * sin1000(deg), 1000) ],
          particles |-> IF p.is_trampoline THEN spawn_trampoline_effect(ps)
                        ELSE ps,
          angle |-> bounce_angle(p, b) ]

\* GameEngine._reflect_ball on paddle p with the counters hits, lvl, base
\* and the ball b.  The angle is taken in whole degrees for sin and cos;
\* speeds are in tenths of a pixel per tick, rounded towards zero.
reflect_ball(p, direction, hits, lvl, base, b, ps) ==
    LET hits1 == hits + 1
        up    == hits1 % HITS_PER_LEVEL = 0
        lvl1  == IF up THEN lvl + 1 ELSE lvl
        base1 == IF up THEN Min(base + SPEED_INCREMENT_PER_LEVEL, BALL_MAX_SPEED)
                 ELSE base
        current_speed == IF p.is_trampoline
                         THEN Min(base1 * TRAMPOLINE_BOOST, SubPx(BALL_MAX_SPEED))
                         ELSE SubPx(base1)
        deg == TruncDiv(bounce_angle(p, b), 1000)
        vx0 == TruncDiv(current_speed * cos1000(deg), 1000) * direction
        vx1 == IF (direction = 1 /\ vx0 < 0) \/ (direction = -1 /\ vx0 > 0)
               THEN -vx0 ELSE vx0
    IN  [ total_hits |-> hits1, level |-> lvl1,
          ball_current_base_speed |-> base1,
          ball |-> [ b EXCEPT !.vx = vx1,
                              !.vy = TruncDiv(current_speed * sin1000(deg), 1000) ],
          particles |-> IF p.is_trampoline THEN spawn_trampoline_effect(ps)
                        ELSE ps,
          angle |-> bounce_angle(p, b) ]

\* GameEngine._handle_collisions that counts a hit whichever way the ball
\* moves
handle_collisions_any_direction(pl, op, hits, lvl, base, b, ps) ==
    LET b_rect == get_draw_rect(b)
        miss == [ total_hits |-> hits, level |-> lvl,
                  ball_current_base_speed |-> base, ball |-> b,
                  particles |-> ps, angle |-> 0, hit |-> "none" ]
    IN  IF colliderect(b_rect, paddle_rect(pl, player_x))
        THEN LET r == reflect_ball(pl, 1, hits, lvl, base, b, ps)
             IN  [ r EXCEPT !.particles = spawn_collision_particles(@) ]
                     @@ [ hit |-> "player" ]
        ELSE IF colliderect(b_rect, paddle_rect(op, ai_x))
        THEN LET r == reflect_ball(op, -1, hits, lvl, base, b, ps)
             IN  [ r EXCEPT !.particles = spawn_collision_particles(@) ]
                     @@ [ hit |-> "ai" ]
        ELSE miss

\* GameEngine._handle_collisions
handle_collisions(pl, op, hits, lvl, base, b, ps) ==
    LET b_rect == get_draw_rect(b)
        miss == [ total_hits |-> hits, level |-> lvl,
                  ball_current_base_speed |-> base, ball |-> b,
                  particles |-> ps, angle |-> 0, hit |-> "none" ]
    IN  IF colliderect(b_rect, paddle_rect(pl, player_x)) /\ b.vx < 0
        THEN LET r == reflect_ball(pl, 1, hits, lvl, base, b, ps)
             IN  [ r EXCEPT !.particles = spawn_collision_particles(@) ]
                     @@ [ hit |-> "player" ]
        ELSE IF colliderect(b_rect, paddle_rect(op, ai_x)) /\ b.vx > 0
        THEN LET r == reflect_ball(op, -1, hits, lvl, base, b, ps)
             IN  [ r EXCEPT !.particles = spawn_collision_particles(@) ]
                     @@ [ hit |-> "ai" ]
        ELSE miss

\* GameEngine._update_ai that follows a ghost ball it cannot see as well
update_ai_sees_ghost(op, b) ==
    paddle_move(op, b.y - SubPx(op.height \div 2))

\* GameEngine._update_ai: the bot's paddle follows the ball
update_ai(op, b) ==
    IF b.is_ghost /\ ~b.ghost_visible
    THEN op
    ELSE paddle_move(op, b.y - SubPx(op.height \div 2))

\* GameEngine._update_local_pvp; key is the arrow key held ("up", "down"
\* or "none") and move is KEYBOARD_SPEED * dt, in tenths of a pixel
update_local_pvp(op, key, move) ==
    LET move_y == CASE key = "up"   -> -move
                    [] key = "down" -> move
                    [] OTHER        -> 0
    IN  IF move_y # 0 THEN paddle_move(op, SubPx(op.y) + move_y) ELSE op

\* a burst of n new particles, each by its life in steps of 0.05
\* (Particle.__init__: life = 1.0)
NewParticles(n) == [ i \in 1..n |-> 20 ]

\* GameEngine._spawn_fireworks
spawn_fireworks(ps) == ps \o NewParticles(40)

\* GameEngine._apply_effect that also leaves the winner's paddle alone
apply_effect_silent(pl, op, b, eff, name, entity, t, winner_obj) ==
    CASE eff = "tiny"  -> [ player |-> pl, ai |-> op,
                            ball |-> set_tiny(b, POWERUP_DURATION, t) ]
      [] eff = "ghost" -> [ player |-> pl, ai |-> op,
                            ball |-> set_ghost(b, POWERUP_DURATION, t) ]
      [] OTHER ->
            [ player |-> IF entity = "player"
                         THEN apply_powerup(pl, eff, name, POWERUP_DURATION, t)
                         ELSE pl,
              ai     |-> IF entity = "ai"
                         THEN apply_powerup(op, eff, name, POWERUP_DURATION, t)
                         ELSE op,
              ball   |-> b ]

\* GameEngine._apply_effect on the paddles pl (player), op (ai) and the
\* ball b; entity and winner_obj name a paddle ("player", "ai") or "None"
apply_effect(pl, op, b, eff, name, entity, t, winner_obj) ==
    LET mark(p) == [ p EXCEPT !.active_powerup_text = name,
                              !.powerup_end_time = t + POWERUP_DURATION ]
        marked == [ player |-> IF winner_obj = "player" THEN mark(pl) ELSE pl,
                    ai     |-> IF winner_obj = "ai" THEN mark(op) ELSE op ]
    IN  CASE eff = "tiny"  -> [ player |-> marked.player, ai |-> marked.ai,
                                ball |-> set_tiny(b, POWERUP_DURATION, t) ]
          [] eff = "ghost" -> [ player |-> marked.player, ai |-> marked.ai,
                                ball |-> set_ghost(b, POWERUP_DURATION, t) ]
          [] OTHER ->
                [ player |-> IF entity = "player"
                             THEN apply_powerup(pl, eff, name, POWERUP_DURATION, t)
                             ELSE pl,
                  ai     |-> IF entity = "ai"
                             THEN apply_powerup(op, eff, name, POWERUP_DURATION, t)
                             ELSE op,
                  ball   |-> b ]

\* the roster of _resolve_math for the paddle me that won, against other
Roster(me, other) ==
    << << "enlarge", "ENLARGE", me >>,
       << "trampoline", "TRAMPOLINE", me >>,
       << "agility", "AGILITY", me >>,
       << "shrink", "SHRINK", other >>,
       << "tiny", "TINY BALL", "None" >>,
       << "ghost", "GHOST BALL", "None" >> >>

\* GameEngine._resolve_math; choice is the index random.choice draws
resolve_math(t, winner, choice) ==
    LET me    == IF winner = "player" THEN "player" ELSE "ai"
        other == IF winner = "player" THEN "ai" ELSE "player"
        pick  == Roster(me, other)[choice]
        r     == apply_effect(player, ai, ball, pick[1], pick[2], pick[3], t, me)
    IN  [ math_sys |-> [ math_sys EXCEPT !.active = FALSE ],
          particles |-> spawn_fireworks(particles),
          player |-> r.player, ai |-> r.ai, ball |-> r.ball,
          last_math_time |-> last_math_time,
          tag |-> "resolve_" \o winner, eff |-> pick[1] ]

\* str.isdigit and int() on a gesture token ("0" .. "5", "neutral", or
\* "None" when hand_data has no gesture)
GestureDigits == [ g \in { "0", "1", "2", "3", "4", "5" } |->
                     CASE g = "0" -> 0 [] g = "1" -> 1 [] g = "2" -> 2
                       [] g = "3" -> 3 [] g = "4" -> 4 [] OTHER -> 5 ]

isdigit(g) == g \in DOMAIN GestureDigits

\* GameEngine._manage_math_tasks whose timeout only deactivates the task,
\* in bot mode too
manage_math_tasks_timeout_silent(curr_time, gesture, keys, draws, choice) ==
    LET same == [ math_sys |-> math_sys, particles |-> particles,
                  player |-> player, ai |-> ai, ball |-> ball,
                  last_math_time |-> last_math_time,
                  tag |-> "idle", eff |-> "" ]
    IN  IF ~math_sys.active
        THEN IF curr_time - last_math_time > MATH_TASK_INTERVAL
             THEN LET g == generate_task(math_sys, curr_time, draws)
                  IN  IF g.ok
                      THEN [ same EXCEPT !.math_sys = g.ms,
                                         !.last_math_time = curr_time,
                                         !.tag = "generated" ]
                      ELSE [ same EXCEPT !.tag = "skipped" ]
             ELSE same
        ELSE IF isdigit(gesture) /\ check_answer(math_sys, GestureDigits[gesture])
        THEN resolve_math(curr_time, "player", choice)
        ELSE IF game_mode = "pvp" /\ \E k \in keys : check_answer(math_sys, k)
        THEN resolve_math(curr_time, "opponent", choice)
        ELSE IF get_time_left(math_sys, curr_time) <= 0
        THEN [ same EXCEPT !.math_sys = [ math_sys EXCEPT !.active = FALSE ],
                           !.tag = "timeout_pvp" ]
        ELSE [ same EXCEPT !.tag = "waiting" ]

\* GameEngine._manage_math_tasks that generates a task whenever none is
\* active, without the interval check
manage_math_tasks_eager(curr_time, gesture, keys, draws, choice) ==
    LET same == [ math_sys |-> math_sys, particles |-> particles,
                  player |-> player, ai |-> ai, ball |-> ball,
                  last_math_time |-> last_math_time,
                  tag |-> "idle", eff |-> "" ]
    IN  IF ~math_sys.active
        THEN IF TRUE
             THEN LET g == generate_task(math_sys, curr_time, draws)
                  IN  IF g.ok
                      THEN [ same EXCEPT !.math_sys = g.ms,
                                         !.last_math_time = curr_time,
                                         !.tag = "generated" ]
                      ELSE [ same EXCEPT !.tag = "skipped" ]
             ELSE same
        ELSE IF isdigit(gesture) /\ check_answer(math_sys, GestureDigits[gesture])
        THEN resolve_math(curr_time, "player", choice)
        ELSE IF game_mode = "pvp" /\ \E k \in keys : check_answer(math_sys, k)
        THEN resolve_math(curr_time, "opponent", choice)
        ELSE IF get_time_left(math_sys, curr_time) <= 0
        THEN IF game_mode = "pvp"
             THEN [ same EXCEPT !.math_sys = [ math_sys EXCEPT !.active = FALSE ],
                                !.tag = "timeout_pvp" ]
             ELSE resolve_math(curr_time, "bot", choice)
        ELSE [ same EXCEPT !.tag = "waiting" ]

\* GameEngine._manage_math_tasks that restarts the interval also when
\* generate_task failed
manage_math_tasks_skip_restarts(curr_time, gesture, keys, draws, choice) ==
    LET same == [ math_sys |-> math_sys, particles |-> particles,
                  player |-> player, ai |-> ai, ball |-> ball,
                  last_math_time |-> last_math_time,
                  tag |-> "idle", eff |-> "" ]
    IN  IF ~math_sys.active
        THEN IF curr_time - last_math_time > MATH_TASK_INTERVAL
             THEN LET g == generate_task(math_sys, curr_time, draws)
                  IN  IF g.ok
                      THEN [ same EXCEPT !.math_sys = g.ms,
                                         !.last_math_time = curr_time,
                                         !.tag = "generated" ]
                      ELSE [ same EXCEPT !.last_math_time = curr_time,
                                         !.tag = "skipped" ]
             ELSE same
        ELSE IF isdigit(gesture) /\ check_answer(math_sys, GestureDigits[gesture])
        THEN resolve_math(curr_time, "player", choice)
        ELSE IF game_mode = "pvp" /\ \E k \in keys : check_answer(math_sys, k)
        THEN resolve_math(curr_time, "opponent", choice)
        ELSE IF get_time_left(math_sys, curr_time) <= 0
        THEN IF game_mode = "pvp"
             THEN [ same EXCEPT !.math_sys = [ math_sys EXCEPT !.active = FALSE ],
                                !.tag = "timeout_pvp" ]
             ELSE resolve_math(curr_time, "bot", choice)
        ELSE [ same EXCEPT !.tag = "waiting" ]

\* GameEngine._manage_math_tasks whose pvp timeout leaves the task active
manage_math_tasks_pvp_waits(curr_time, gesture, keys, draws, choice) ==
    LET same == [ math_sys |-> math_sys, particles |-> particles,
                  player |-> player, ai |-> ai, ball |-> ball,
                  last_math_time |-> last_math_time,
                  tag |-> "idle", eff |-> "" ]
    IN  IF ~math_sys.active
        THEN IF curr_time - last_math_time > MATH_TASK_INTERVAL
             THEN LET g == generate_task(math_sys, curr_time, draws)
                  IN  IF g.ok
                      THEN [ same EXCEPT !.math_sys = g.ms,
                                         !.last_math_time = curr_time,
                                         !.tag = "generated" ]
                      ELSE [ same EXCEPT !.tag = "skipped" ]
             ELSE same
        ELSE IF isdigit(gesture) /\ check_answer(math_sys, GestureDigits[gesture])
        THEN resolve_math(curr_time, "player", choice)
        ELSE IF game_mode = "pvp" /\ \E k \in keys : check_answer(math_sys, k)
        THEN resolve_math(curr_time, "opponent", choice)
        ELSE IF get_time_left(math_sys, curr_time) <= 0
        THEN IF game_mode = "pvp"
             THEN [ same EXCEPT !.tag = "timeout_pvp" ]
             ELSE resolve_math(curr_time, "bot", choice)
        ELSE [ same EXCEPT !.tag = "waiting" ]

\* GameEngine._manage_math_tasks; keys is the set of digit keys held down
manage_math_tasks(curr_time, gesture, keys, draws, choice) ==
    LET same == [ math_sys |-> math_sys, particles |-> particles,
                  player |-> player, ai |-> ai, ball |-> ball,
                  last_math_time |-> last_math_time,
                  tag |-> "idle", eff |-> "" ]
    IN  IF ~math_sys.active
        THEN IF curr_time - last_math_time > MATH_TASK_INTERVAL
             THEN LET g == generate_task(math_sys, curr_time, draws)
                  IN  IF g.ok
                      THEN [ same EXCEPT !.math_sys = g.ms,
                                         !.last_math_time = curr_time,
                                         !.tag = "generated" ]
                      ELSE [ same EXCEPT !.tag = "skipped" ]
             ELSE same
        ELSE IF isdigit(gesture) /\ check_answer(math_sys, GestureDigits[gesture])
        THEN resolve_math(curr_time, "player", choice)
        ELSE IF game_mode = "pvp" /\ \E k \in keys : check_answer(math_sys, k)
        THEN resolve_math(curr_time, "opponent", choice)
        ELSE IF get_time_left(math_sys, curr_time) <= 0
        THEN IF game_mode = "pvp"
             THEN [ same EXCEPT !.math_sys = [ math_sys EXCEPT !.active = FALSE ],
                                !.tag = "timeout_pvp" ]
             ELSE resolve_math(curr_time, "bot", choice)
        ELSE [ same EXCEPT !.tag = "waiting" ]


\* hand_data: ret tells whether cap.read() gave a frame; without one the
\* main loop passes the empty dict
HandGesture(hd) == IF hd.ret THEN hd.gesture ELSE "None"
HandPause(hd) == IF hd.ret THEN hd.pause_progress ELSE 0

\* GameEngine.update without the pause check
update_no_pause(hd, curr_time) ==
    LET tc == update_time_and_check_win(curr_time)
    IN  IF tc.state # "playing"
        THEN [ state |-> tc.state, winner_text |-> tc.winner_text,
               sudden_death |-> tc.sudden_death,
               game_time_str |-> tc.game_time_str,
               tag |-> "time_limit", raised |-> "" ]
        ELSE [ state |-> tc.state, winner_text |-> tc.winner_text,
               sudden_death |-> tc.sudden_death,
               game_time_str |-> tc.game_time_str,
               tag |-> "raised",
               raised |-> IF hd.ret THEN "TypeError" ELSE "KeyError" ]

\* GameEngine.update in the playing state: the fields it leaves behind and
\* the exception it ends with.  Past the pause check it reads
\* hand_data['angle'] (KeyError on the empty dict) and adds GAME_AREA_Y to
\* the result of map_angle_to_paddle_y, which is the pair
\* (paddle_y, is_in_deadzone): int + tuple raises TypeError.  Lines 101-116
\* are never reached.
update(hd, curr_time) ==
    LET tc == update_time_and_check_win(curr_time)
    IN  IF tc.state # "playing"
        THEN [ state |-> tc.state, winner_text |-> tc.winner_text,
               sudden_death |-> tc.sudden_death,
               game_time_str |-> tc.game_time_str,
               tag |-> "time_limit", raised |-> "" ]
        ELSE IF HandPause(hd) >= 100
        THEN [ state |-> "paused", winner_text |-> tc.winner_text,
               sudden_death |-> tc.sudden_death,
               game_time_str |-> tc.game_time_str,
               tag |-> "paused", raised |-> "" ]
        ELSE [ state |-> tc.state, winner_text |-> tc.winner_text,
               sudden_death |-> tc.sudden_death,
               game_time_str |-> tc.game_time_str,
               tag |-> "raised",
               raised |-> IF hd.ret THEN "TypeError" ELSE "KeyError" ]

\* GameEngine.update that skips the state check of lines 80-81
update_call_any_state(hd, curr_time) ==
    update(hd, curr_time) @@ [ entered |-> TRUE ]

\* GameEngine.update from its first line: outside the playing state it
\* returns at once (lines 80-81), before the clock is read; entered tells
\* whether the tick went past that check
update_call(hd, curr_time) ==
    IF state # "playing"
    THEN [ state |-> state, winner_text |-> winner_text,
           sudden_death |-> sudden_death, game_time_str |-> game_time_str,
           tag |-> "not_playing", raised |-> "", entered |-> FALSE ]
    ELSE update(hd, curr_time) @@ [ entered |-> TRUE ]

\* ------------------------------------------------------------- MenuSystem
NoItem == [ text |-> "", id |-> "", action |-> "" ]

main_menu ==
    << [ text |-> "VS BOT", id |-> "1", action |-> "goto_difficulty" ],
       [ text |-> "VS PLAYER (KEYS)", id |-> "2", action |-> "start_pvp" ],
       [ text |-> "EXIT", id |-> "3", action |-> "confirm_exit" ] >>

diff_menu ==
    << [ text |-> "SUPER EASY", id |-> "1", action |-> "super_easy" ],
       [ text |-> "EASY", id |-> "2", action |-> "easy" ],
       [ text |-> "MIDDLE", id |-> "3", action |-> "middle" ],
       [ text |-> "HARD", id |-> "4", action |-> "hard" ],
       [ text |-> "BACK", id |-> "5", action |-> "back_main" ] >>

confirm_menu ==
    << [ text |-> "YES", id |-> "1", action |-> "exit_app" ],
       [ text |-> "NO", id |-> "2", action |-> "back_main" ] >>

pause_menu ==
    << [ text |-> "RESUME", id |-> "1", action |-> "resume" ],
       [ text |-> "RESTART", id |-> "2", action |-> "restart" ],
       [ text |-> "QUIT TO MENU", id |-> "3", action |-> "quit_main" ] >>

\* MenuSystem.__init__
NewMenu == [ selection_timer |-> 0, selected_item |-> NoItem, ignore_timer |-> 0 ]

\* MenuSystem.reset_cooldown
reset_cooldown(m) ==
    [ m EXCEPT !.ignore_timer = MENU_TRANSITION_DELAY,
               !.selection_timer = 0, !.selected_item = NoItem ]

\* the first item of current_list whose id is the gesture, or NoItem
MenuTarget(current_list, gesture) ==
    IF isdigit(gesture) /\ \E i \in 1..Len(current_list) : current_list[i].id = gesture
    THEN current_list[CHOOSE i \in 1..Len(current_list) :
                          /\ current_list[i].id = gesture
                          /\ \A j \in 1..(i - 1) : current_list[j].id # gesture]
    ELSE NoItem

\* MenuSystem.update that keeps the hold timer when the gesture is lost
menu_update_sticky(m, current_list, gesture, dt, hold_time) ==
    LET target == MenuTarget(current_list, gesture)
    IN  IF m.ignore_timer > 0
        THEN [ menu |-> [ m EXCEPT !.ignore_timer = @ - dt ], action |-> "None" ]
        ELSE IF target # NoItem
        THEN IF m.selected_item = target
             THEN IF m.selection_timer + dt >= hold_time
                  THEN [ menu |-> [ m EXCEPT !.selection_timer = 0,
                                             !.selected_item = NoItem,
                                             !.ignore_timer = MENU_TRANSITION_DELAY ],
                         action |-> target.action ]
                  ELSE [ menu |-> [ m EXCEPT !.selection_timer = @ + dt ],
                         action |-> "None" ]
             ELSE [ menu |-> [ m EXCEPT !.selected_item = target,
                                        !.selection_timer = 0 ],
                    action |-> "None" ]
        ELSE [ menu |-> m, action |-> "None" ]

\* MenuSystem.update: the menu afterwards and the action returned
menu_update(m, current_list, gesture, dt, hold_time) ==
    LET target == MenuTarget(current_list, gesture)
    IN  IF m.ignore_timer > 0
        THEN [ menu |-> [ m EXCEPT !.ignore_timer = @ - dt ], action |-> "None" ]
        ELSE IF target # NoItem
        THEN IF m.selected_item = target
             THEN IF m.selection_timer + dt >= hold_time
                  THEN [ menu |-> [ m EXCEPT !.selection_timer = 0,
                                             !.selected_item = NoItem,
                                             !.ignore_timer = MENU_TRANSITION_DELAY ],
                         action |-> target.action ]
                  ELSE [ menu |-> [ m EXCEPT !.selection_timer = @ + dt ],
                         action |-> "None" ]
             ELSE [ menu |-> [ m EXCEPT !.selected_item = target,
                                        !.selection_timer = 0 ],
                    action |-> "None" ]
        ELSE [ menu |-> [ m EXCEPT !.selected_item = NoItem,
                                   !.selection_timer = 0 ],
               action |-> "None" ]


\* --------------------------------------------------------- HandController
\* ExponentialMovingAverage.__init__; alpha in 1/10000
NewEma(alpha) == [ alpha |-> alpha, value |-> 0, initialized |-> FALSE ]

\* ExponentialMovingAverage.update that smooths the first value too
ema_update_no_passthrough(e, new_value) ==
    [ e EXCEPT !.value = TruncDiv(e.alpha * new_value
                                      + (10000 - e.alpha) * e.value, 10000),
               !.initialized = TRUE ]

\* ExponentialMovingAverage.update; the returned value is the new value
\* field.  Values are in tenths of a degree, rounded towards zero.
ema_update(e, new_value) ==
    IF ~e.initialized
    THEN [ e EXCEPT !.value = new_value, !.initialized = TRUE ]
    ELSE [ e EXCEPT !.value = TruncDiv(e.alpha * new_value
                                           + (10000 - e.alpha) * e.value,
                                       10000) ]

\* ExponentialMovingAverage.reset
ema_reset(e) == [ e EXCEPT !.value = 0, !.initialized = FALSE ]

\* utils.calculate_angle, math.degrees(math.atan2(dy, dx)) in tenths of a
\* degree, for the points whose difference is one of the eight compass
\* directions (or zero)
calculate_angle(point1, point2) ==
    LET dx == point2[1] - point1[1]
        dy == point2[2] - point1[2]
    IN  CASE dy = 0 /\ dx >= 0 -> 0
          [] dy = 0 /\ dx < 0  -> 1800
          [] dx = 0 /\ dy > 0  -> 900
          [] dx = 0 /\ dy < 0  -> -900
          [] dx > 0 /\ dy > 0  -> 450
          [] dx < 0 /\ dy > 0  -> 1350
          [] dx < 0 /\ dy < 0  -> -1350
          [] OTHER              -> -450

\* HandController.__init__; out is the dict process returned last (before
\* the first frame: the initial angle, no gesture, no pause), frames
\* counts the process calls, and hold is the history of the pause pose:
\* the sum of dt over the frames in the pose since the last frame without it
NewHandController ==
    [ smoother |-> NewEma(START_ALPHA), current_angle |-> START_ANGLE,
      pause_timer |-> 0, current_gesture |-> "neutral",
      hands_detected |-> FALSE,
      out |-> [ angle |-> START_ANGLE, gesture |-> "neutral",
                pause_progress |-> 0 ],
      frames |-> 0, hold |-> 0 ]

\* the index of the first hand labelled DOMINANT_HAND, 0 if there is none
FirstDominant(hands) ==
    IF \E i \in 1..Len(hands) : hands[i].label = DOMINANT_HAND
    THEN CHOOSE i \in 1..Len(hands) :
             /\ hands[i].label = DOMINANT_HAND
             /\ \A j \in 1..(i - 1) : hands[j].label # DOMINANT_HAND
    ELSE 0

\* process with a frame without hands leaving the pause timer as it is
process_keeps_hold(h, res, dt) ==
    LET n == Len(res.hands)
        two == PAUSE_TOGGLE_ENABLED /\ n = 2
        timer1 == IF two
                  THEN IF res.x_pose THEN h.pause_timer + dt ELSE 0
                  ELSE h.pause_timer
        progress == IF two /\ res.x_pose
                    THEN Min(100, (100 * timer1) \div PAUSE_ACTIVATION_TIME)
                    ELSE 0
        idx == FirstDominant(res.hands)
    IN  IF n = 0
        THEN [ h EXCEPT !.hands_detected = FALSE,
                        !.out = [ angle |-> h.current_angle,
                                  gesture |-> "neutral",
                                  pause_progress |-> 0 ],
                        !.frames = @ + 1 ]
        ELSE IF idx = 0
        THEN [ h EXCEPT !.hands_detected = TRUE,
                        !.pause_timer = 0,
                        !.out = [ angle |-> h.current_angle,
                                  gesture |-> "neutral",
                                  pause_progress |-> progress ],
                        !.frames = @ + 1 ]
        ELSE LET raw_angle == calculate_angle(res.hands[idx].anchor,
                                              res.hands[idx].target)
                 d == raw_angle - h.current_angle
                 diff == IF d < 0 THEN -d ELSE d
                 target_alpha == 1500 + Min(diff, 100) * 75
                 sm == ema_update([ h.smoother EXCEPT !.alpha = target_alpha ],
                                  raw_angle)
             IN  [ h EXCEPT !.hands_detected = TRUE,
                            !.pause_timer = timer1,
                            !.smoother = sm,
                            !.current_angle = sm.value,
                            !.current_gesture = res.hands[idx].gesture,
                            !.out = [ angle |-> sm.value,
                                      gesture |-> res.hands[idx].gesture,
                                      pause_progress |-> progress ],
                            !.frames = @ + 1 ]

\* HandController.process.  res is MediaPipe's result: hands, the detected
\* hands in order (label, anchor and target points, classified gesture),
\* and x_pose, what _check_x_pose gives for the first two hands.  dt is in
\* tenths of a second, pause_progress in percent.
process(h, res, dt) ==
    LET n == Len(res.hands)
        two == PAUSE_TOGGLE_ENABLED /\ n = 2
        timer1 == IF two
                  THEN IF res.x_pose THEN h.pause_timer + dt ELSE 0
                  ELSE h.pause_timer
        progress == IF two /\ res.x_pose
                    THEN Min(100, (100 * timer1) \div PAUSE_ACTIVATION_TIME)
                    ELSE 0
        idx == FirstDominant(res.hands)
    IN  IF n = 0
        THEN [ h EXCEPT !.hands_detected = FALSE,
                        !.pause_timer = 0,
                        !.out = [ angle |-> h.current_angle,
                                  gesture |-> "neutral",
                                  pause_progress |-> 0 ],
                        !.frames = @ + 1 ]
        ELSE IF idx = 0
        THEN [ h EXCEPT !.hands_detected = TRUE,
                        !.pause_timer = 0,
                        !.out = [ angle |-> h.current_angle,
                                  gesture |-> "neutral",
                                  pause_progress |-> progress ],
                        !.frames = @ + 1 ]
        ELSE LET raw_angle == calculate_angle(res.hands[idx].anchor,
                                              res.hands[idx].target)
                 d == raw_angle - h.current_angle
                 diff == IF d < 0 THEN -d ELSE d
                 target_alpha == 1500 + Min(diff, 100) * 75
                 sm == ema_update([ h.smoother EXCEPT !.alpha = target_alpha ],
                                  raw_angle)
             IN  [ h EXCEPT !.hands_detected = TRUE,
                            !.pause_timer = timer1,
                            !.smoother = sm,
                            !.current_angle = sm.value,
                            !.current_gesture = res.hands[idx].gesture,
                            !.out = [ angle |-> sm.value,
                                      gesture |-> res.hands[idx].gesture,
                                      pause_progress |-> progress ],
                            !.frames = @ + 1 ]

\* ------------------------------------------------------------ the state
\* the last operation: its name, the branch it took, the effect or the
\* exception it ended with, and the pause_progress it was given
Ev(op, tag, eff, inp) == [ op |-> op, tag |-> tag, eff |-> eff, inp |-> inp ]

\* GameEngine.__init__, MenuSystem.__init__ and the first clock reading;
\* Ball.__init__ draws the ball's first direction
Init ==
    /\ state = "menu"
    /\ game_mode = "bot"
    /\ player = NewPaddle(FALSE)
    /\ ai = NewPaddle(TRUE)
    /\ \E direction \in { -1, 1 }, vy0 \in { -40, 0, 40 } :
           ball = NewBall(direction, vy0)
    /\ particles = << >>
    /\ math_sys = NewMathSystem
    /\ level = 1
    /\ start_time = 0
    /\ game_time_str = FormatTime(0)
    /\ winner_text = ""
    /\ last_math_time = 0
    /\ sudden_death = FALSE
    /\ total_hits = 0
    /\ ball_current_base_speed = BALL_START_SPEED
    /\ menu = NewMenu
    /\ running = TRUE
    /\ now = Epoch
    /\ hand = NewHandController
    /\ ev = Ev("init", "", "", 0)

\* GameEngine.start_game at clock reading t: the engine part
start_game(mode, dir_x, dir_y, t) ==
    /\ game_mode' = mode
    /\ player' = paddle_reset(player)
    /\ ai' = [ paddle_reset(ai) EXCEPT !.is_ai = (mode # "pvp") ]
    /\ ball_current_base_speed' = BALL_START_SPEED
    /\ ball' = reset_ball_with_speed(ball, BALL_START_SPEED, dir_x, dir_y)
    /\ particles' = << >>
    /\ math_sys' = math_reset(math_sys)
    /\ level' = 1
    /\ total_hits' = 0
    /\ start_time' = t
    /\ last_math_time' = t
    /\ sudden_death' = FALSE
    /\ state' = "playing"
    /\ UNCHANGED << game_time_str, winner_text >>

\* ------------------------------------- the engine's methods, one by one
\* start_game called from a state run_game_loop calls it in: the main
\* menu (start_pvp), the difficulty menu, the pause menu (restart)
StartGame(mode, dir_x, dir_y, t) ==
    /\ running
    /\ UNCHANGED hand
    /\ state \in { "menu", "difficulty_select", "paused" }
    /\ start_game(mode, dir_x, dir_y, t)
    /\ now' = t
    /\ ev' = Ev("start_game", mode,
                IF player.active_powerup_text # "None"
                   \/ ai.active_powerup_text # "None"
                THEN "cleared" ELSE "", 0)
    /\ UNCHANGED << menu, running >>

\* update called directly in the playing state; an exception it raises is
\* the caller's to handle and the fields already written stay written
Update(hd, t) ==
    /\ running
    /\ UNCHANGED hand
    /\ state = "playing"
    /\ LET r == update(hd, t)
       IN  /\ state' = r.state
           /\ winner_text' = r.winner_text
           /\ sudden_death' = r.sudden_death
           /\ game_time_str' = r.game_time_str
           /\ ev' = Ev("update", r.tag, r.raised, HandPause(hd))
    /\ now' = t
    /\ UNCHANGED << game_mode, player, ai, ball, math_sys, particles, level,
                    start_time, last_math_time, total_hits,
                    ball_current_base_speed, menu, running >>

\* update called while the engine is not in the playing state, at clock
\* time t
UpdateNotPlaying(hd, t) ==
    /\ running
    /\ UNCHANGED hand
    /\ state # "playing"
    /\ \E r \in { update_call(hd, t) } :
           /\ state' = r.state
           /\ winner_text' = r.winner_text
           /\ sudden_death' = r.sudden_death
           /\ game_time_str' = r.game_time_str
           /\ ev' = Ev("update", r.tag, r.raised, HandPause(hd))
    /\ now' = t
    /\ UNCHANGED << game_mode, player, ai, ball, math_sys, particles, level,
                    start_time, last_math_time, total_hits,
                    ball_current_base_speed, menu, running >>

\* _update_time_and_check_win (update, line 84)
UpdateTimeAndCheckWin(t) ==
    /\ running
    /\ UNCHANGED hand
    /\ state = "playing"
    /\ LET r == update_time_and_check_win(t)
       IN  /\ state' = r.state
           /\ winner_text' = r.winner_text
           /\ sudden_death' = r.sudden_death
           /\ game_time_str' = r.game_time_str
           /\ ev' = Ev("update_time_and_check_win",
                       IF t - start_time >= TIME_LIMIT THEN "expired" ELSE "running",
                       "", 0)
    /\ now' = t
    /\ UNCHANGED << game_mode, player, ai, ball, math_sys, particles, level,
                    start_time, last_math_time, total_hits,
                    ball_current_base_speed, menu, running >>

\* the ball is inside the scoring bounds on the x axis
InField ==
    /\ ball.x >= SubPx(GAME_AREA_X - 20)
    /\ ball.x <= SubPx(GAME_AREA_X + GAME_AREA_WIDTH + 20)

\* self.ball.update(curr_time) (update, line 108); _check_score respawns a
\* ball that has left the field before the next Ball.update
BallUpdate(t) ==
    /\ running
    /\ UNCHANGED hand
    /\ state = "playing"
    /\ InField
    /\ ball' = ball_update(ball, t)
    /\ now' = t
    /\ ev' = Ev("ball_update", "", "", 0)
    /\ UNCHANGED << state, game_mode, player, ai, math_sys, particles, level,
                    start_time, game_time_str, winner_text, last_math_time,
                    sudden_death, total_hits, ball_current_base_speed,
                    menu, running >>

\* Ball.update called until the ball has left the field: the ball's flight
\* past a paddle that misses it
RECURSIVE ball_flight(_, _)
ball_flight(b, current_time) ==
    IF /\ b.x >= SubPx(GAME_AREA_X - 20)
       /\ b.x <= SubPx(GAME_AREA_X + GAME_AREA_WIDTH + 20)
    THEN ball_flight(ball_update(b, current_time), current_time)
    ELSE b

\* the updates' Ball.update calls (line 108) of a run of ticks in which no
\* paddle meets the ball, up to the tick whose _check_score sees it out
BallFlight(t) ==
    /\ running
    /\ UNCHANGED hand
    /\ state = "playing"
    /\ InField
    /\ ball' = ball_flight(ball, t)
    /\ now' = t
    /\ ev' = Ev("ball_update", "", "", 0)
    /\ UNCHANGED << state, game_mode, player, ai, math_sys, particles, level,
                    start_time, game_time_str, winner_text, last_math_time,
                    sudden_death, total_hits, ball_current_base_speed,
                    menu, running >>

\* self.player.update(curr_time) or self.ai.update(curr_time)
\* (update, lines 106-107)
PaddleUpdate(who, t) ==
    /\ running
    /\ UNCHANGED hand
    /\ state = "playing"
    /\ IF who = "player"
       THEN player' = paddle_update(player, t) /\ UNCHANGED ai
       ELSE ai' = paddle_update(ai, t) /\ UNCHANGED player
    /\ now' = t
    /\ ev' = Ev("paddle_update", who,
                IF << player', ai' >> # << player, ai >> THEN "cleared" ELSE "",
                0)
    /\ UNCHANGED << state, game_mode, ball, math_sys, particles, level,
                    start_time, game_time_str, winner_text, last_math_time,
                    sudden_death, total_hits, ball_current_base_speed,
                    menu, running >>

\* self._check_score() (update, line 111)
CheckScore(dir_x, dir_y) ==
    /\ running
    /\ UNCHANGED hand
    /\ state = "playing"
    /\ LET r == check_score(dir_x, dir_y)
       IN  /\ player' = r.player
           /\ ai' = r.ai
           /\ ball' = r.ball
           /\ state' = r.state
           /\ winner_text' = r.winner_text
           /\ ev' = Ev("check_score", r.side, "", 0)
    /\ UNCHANGED << game_mode, math_sys, particles, level, start_time,
                    game_time_str, last_math_time, sudden_death, total_hits,
                    ball_current_base_speed, menu, running, now >>

\* self._manage_math_tasks(curr_time, gesture) (update, line 112); ev
\* keeps the answer that resolved the task: the gesture's digit for the
\* player, the digit keys held for the pvp opponent
ManageMathTasks(t, gesture, keys, draws, choice) ==
    /\ running
    /\ UNCHANGED hand
    /\ state = "playing"
    /\ \E r \in { manage_math_tasks(t, gesture, keys, draws, choice) } :
           /\ math_sys' = r.math_sys
           /\ particles' = r.particles
           /\ player' = r.player
           /\ ai' = r.ai
           /\ ball' = r.ball
           /\ last_math_time' = r.last_math_time
           /\ ev' = Ev("manage_math_tasks", r.tag, r.eff,
                       CASE r.tag = "resolve_player" -> GestureDigits[gesture]
                         [] r.tag = "resolve_opponent" -> keys
                         [] OTHER -> 0)
    /\ now' = t
    /\ UNCHANGED << state, game_mode, level, start_time, game_time_str,
                    winner_text, sudden_death, total_hits,
                    ball_current_base_speed, menu, running >>


\* the hold as the player sees it: the item the gesture has matched on
\* every update since it was first selected ("NoItem" if none) and the dt
\* accumulated since then, kept in ev.inp from one menu update to the next
HeldBefore ==
    IF ev.op = "menu_update" THEN ev.inp.held ELSE << NoItem, 0 >>

HeldAfter(cooling, target, action, dt) ==
    IF cooling \/ target = NoItem \/ action # "None"
    THEN << NoItem, 0 >>
    ELSE IF HeldBefore[1] = target
    THEN << target, HeldBefore[2] + dt >>
    ELSE << target, 0 >>

\* menu.update(current_list, gesture, dt, hold_time) (run_game_loop, lines
\* 97, 111, 126 and 162); ev keeps the action returned, whether the
\* cooldown was running, the item the gesture matched, dt, hold_time and
\* the hold
MenuUpdate(current_list, gesture, dt, hold_time) ==
    /\ running
    /\ \E r \in { menu_update(menu, current_list, gesture, dt, hold_time) } :
           /\ menu' = r.menu
           /\ ev' = Ev("menu_update", r.action,
                       IF menu.ignore_timer > 0 THEN "cooldown" ELSE "",
                       [ target |-> MenuTarget(current_list, gesture),
                         dt |-> dt, hold_time |-> hold_time,
                         held |-> HeldAfter(menu.ignore_timer > 0,
                                            MenuTarget(current_list, gesture),
                                            r.action, dt) ])
    /\ UNCHANGED << engine_vars, running, now, hand >>

\* menu.reset_cooldown()
MenuResetCooldown ==
    /\ running
    /\ menu' = reset_cooldown(menu)
    /\ ev' = Ev("reset_cooldown", "", "", 0)
    /\ UNCHANGED << engine_vars, running, now, hand >>

\* self.math_sys.check_answer(player_answer) on the task as it is; ev
\* keeps the answer and what the call returned
CheckAnswer(player_answer) ==
    /\ running
    /\ state = "playing"
    /\ ev' = Ev("check_answer",
                IF check_answer(math_sys, player_answer) THEN "true" ELSE "false",
                "", player_answer)
    /\ UNCHANGED << engine_vars, menu, running, now, hand >>

\* the call of map_angle_to_paddle_y in update (lines 93-98) for the hand
\* angle read from hand_data and the player's paddle as it is; the result
\* is a local of update, kept here in ev as << angle, paddle_y >> with the
\* deadzone flag
MapAngle(angle) ==
    /\ running
    /\ UNCHANGED hand
    /\ state = "playing"
    /\ \E r \in { map_angle_to_paddle_y(angle, GAME_AREA_HEIGHT, player.height,
                                         PADDLE_ANGLE_UP, PADDLE_ANGLE_DOWN) } :
           ev' = Ev("map_angle", IF r[2] THEN "deadzone" ELSE "", "",
                    << angle, r[1] >>)
    /\ UNCHANGED << engine_vars, menu, running, now >>

\* the physics of one playing tick (update, lines 99-111) for a player
\* target already computed: player.move(target_y), the opponent's move
\* (_update_ai or _update_local_pvp), player.update, ai.update,
\* ball.update, _handle_collisions and _check_score, in this order.  key
\* and move are the arrow key held and KEYBOARD_SPEED * dt; dir_x, dir_y
\* are the draws of a respawn.
PhysicsStep(target_y, key, move, dir_x, dir_y, t) ==
    /\ running
    /\ UNCHANGED hand
    /\ state = "playing"
    /\ total_hits < MaxHits
    /\ \E pl \in { paddle_update(paddle_move(player, target_y), t) },
          op \in { paddle_update(IF game_mode = "pvp"
                                 THEN update_local_pvp(ai, key, move)
                                 ELSE update_ai(ai, ball), t) } :
         \E c \in { handle_collisions(pl, op, total_hits, level,
                                      ball_current_base_speed,
                                      ball_update(ball, t), particles) } :
         \E r \in { check_score_on(pl, op, c.ball, c.ball_current_base_speed,
                                   sudden_death, state, winner_text,
                                   dir_x, dir_y) } :
           /\ player' = r.player
           /\ ai' = r.ai
           /\ ball' = r.ball
           /\ total_hits' = c.total_hits
           /\ level' = c.level
           /\ ball_current_base_speed' = c.ball_current_base_speed
           /\ particles' = c.particles
           /\ state' = r.state
           /\ winner_text' = r.winner_text
           /\ ev' = Ev("physics", c.hit, r.side, c.angle)
    /\ now' = t
    /\ UNCHANGED << game_mode, math_sys, start_time, game_time_str,
                    last_math_time, sudden_death, menu, running >>


\* input_ctrl.process(frame, dt) (run_game_loop, line 91) on the
\* detection res; ev keeps the kind of frame (tag: whether the dominant
\* hand was found; eff: how many hands and whether in the pause pose) and
\* the raw angle
HandProcess(res, dt) ==
    /\ running
    /\ hand.frames < MaxFrames
    /\ hand' = [ process(hand, res, dt) EXCEPT
                    !.hold = IF Len(res.hands) = 2 /\ res.x_pose
                             THEN hand.hold + dt ELSE 0 ]
    /\ ev' = Ev("process",
                CASE Len(res.hands) = 0 -> "no_hand"
                  [] FirstDominant(res.hands) = 0 -> "no_dominant"
                  [] OTHER -> "dominant",
                CASE Len(res.hands) = 2 /\ res.x_pose -> "pose"
                  [] Len(res.hands) = 2 -> "two_hands"
                  [] Len(res.hands) = 1 -> "one_hand"
                  [] OTHER -> "no_hand",
                IF FirstDominant(res.hands) = 0 THEN 0
                ELSE calculate_angle(res.hands[FirstDominant(res.hands)].anchor,
                                     res.hands[FirstDominant(res.hands)].target))
    /\ UNCHANGED << engine_vars, menu, running, now >>

\* ExponentialMovingAverage.update(new_value) on a filter of its own, for
\* the smoothing factor alpha; hand.frames counts the calls
EmaUpdate(alpha, new_value) ==
    /\ running
    /\ hand.frames < MaxFrames
    /\ hand' = [ hand EXCEPT
                    !.smoother = ema_update([ @ EXCEPT !.alpha = alpha ],
                                            new_value),
                    !.frames = @ + 1 ]
    /\ ev' = Ev("ema_update", "", "", new_value)
    /\ UNCHANGED << engine_vars, menu, running, now >>

\* ExponentialMovingAverage.reset()
EmaReset ==
    /\ running
    /\ hand' = [ hand EXCEPT !.smoother = ema_reset(@) ]
    /\ ev' = Ev("ema_reset", "", "", 0)
    /\ UNCHANGED << engine_vars, menu, running, now >>

\* --------------------------------------------------------- the main loop
\* one pass of run_game_loop's while loop, by the branch engine.state
\* selects.  hd is the frame's hand_data, dt the frame time, quit tells
\* whether a QUIT or K_q event was read; the clock advances by dt.
\* clock.tick and the frame's events
FrameStart(dt) ==
    /\ running
    /\ UNCHANGED hand
    /\ now + dt <= MaxLoopTime
    /\ now' = now + dt

MenuFrame(hd, dt, quit, dir_x, dir_y) ==
    /\ FrameStart(dt)
    /\ state = "menu"
    /\ LET r == menu_update(menu, main_menu, HandGesture(hd), dt, MENU_HOLD_TIME)
       IN  CASE r.action = "goto_difficulty" ->
                  /\ state' = "difficulty_select"
                  /\ menu' = reset_cooldown(r.menu)
                  /\ UNCHANGED << game_mode, player, ai, ball, math_sys,
                                  particles, level, start_time, game_time_str,
                                  winner_text, last_math_time, sudden_death,
                                  total_hits, ball_current_base_speed >>
             [] r.action = "start_pvp" ->
                  /\ start_game("pvp", dir_x, dir_y, now')
                  /\ menu' = r.menu
             [] r.action = "confirm_exit" ->
                  /\ state' = "confirm_exit"
                  /\ menu' = reset_cooldown(r.menu)
                  /\ UNCHANGED << game_mode, player, ai, ball, math_sys,
                                  particles, level, start_time, game_time_str,
                                  winner_text, last_math_time, sudden_death,
                                  total_hits, ball_current_base_speed >>
             [] OTHER ->
                  /\ menu' = r.menu
                  /\ UNCHANGED engine_vars
    /\ running' = ~quit
    /\ ev' = Ev("frame", "menu", "", 0)

DifficultyFrame(hd, dt, quit, dir_x, dir_y) ==
    /\ FrameStart(dt)
    /\ state = "difficulty_select"
    /\ LET r == menu_update(menu, diff_menu, HandGesture(hd), dt, MENU_HOLD_TIME)
       IN  CASE r.action = "back_main" ->
                  /\ state' = "menu"
                  /\ menu' = reset_cooldown(r.menu)
                  /\ UNCHANGED << game_mode, player, ai, ball, math_sys,
                                  particles, level, start_time, game_time_str,
                                  winner_text, last_math_time, sudden_death,
                                  total_hits, ball_current_base_speed >>
             [] r.action \in { "super_easy", "easy", "middle", "hard" } ->
                  /\ start_game("bot", dir_x, dir_y, now')
                  /\ menu' = r.menu
             [] OTHER ->
                  /\ menu' = r.menu
                  /\ UNCHANGED engine_vars
    /\ running' = ~quit
    /\ ev' = Ev("frame", "difficulty_select", "", 0)

ConfirmExitFrame(hd, dt, quit) ==
    /\ FrameStart(dt)
    /\ state = "confirm_exit"
    /\ LET r == menu_update(menu, confirm_menu, HandGesture(hd), dt, MENU_HOLD_TIME)
       IN  CASE r.action = "exit_app" ->
                  /\ running' = FALSE
                  /\ menu' = r.menu
                  /\ UNCHANGED engine_vars
             [] r.action = "back_main" ->
                  /\ state' = "menu"
                  /\ menu' = reset_cooldown(r.menu)
                  /\ running' = ~quit
                  /\ UNCHANGED << game_mode, player, ai, ball, math_sys,
                                  particles, level, start_time, game_time_str,
                                  winner_text, last_math_time, sudden_death,
                                  total_hits, ball_current_base_speed >>
             [] OTHER ->
                  /\ menu' = r.menu
                  /\ running' = ~quit
                  /\ UNCHANGED engine_vars
    /\ ev' = Ev("frame", "confirm_exit", "", 0)

\* engine.update(hand_data, dt); an exception it raises ends the loop
PlayingFrame(hd, dt, quit) ==
    /\ FrameStart(dt)
    /\ state = "playing"
    /\ LET r == update(hd, now')
       IN  /\ state' = r.state
           /\ winner_text' = r.winner_text
           /\ sudden_death' = r.sudden_death
           /\ game_time_str' = r.game_time_str
           /\ running' = (~quit /\ r.raised = "")
           /\ ev' = Ev("update", r.tag, r.raised, HandPause(hd))
    /\ UNCHANGED << game_mode, player, ai, ball, math_sys, particles, level,
                    start_time, last_math_time, total_hits,
                    ball_current_base_speed, menu >>

PausedFrame(hd, dt, quit, dir_x, dir_y) ==
    /\ FrameStart(dt)
    /\ state = "paused"
    /\ LET r == menu_update(menu, pause_menu, HandGesture(hd), dt, PAUSE_SELECTION_TIME)
       IN  CASE r.action = "resume" ->
                  /\ state' = "playing"
                  /\ menu' = reset_cooldown(r.menu)
                  /\ UNCHANGED << game_mode, player, ai, ball, math_sys,
                                  particles, level, start_time, game_time_str,
                                  winner_text, last_math_time, sudden_death,
                                  total_hits, ball_current_base_speed >>
             [] r.action = "restart" ->
                  /\ start_game(game_mode, dir_x, dir_y, now')
                  /\ menu' = reset_cooldown(r.menu)
             [] r.action = "quit_main" ->
                  /\ state' = "menu"
                  /\ menu' = reset_cooldown(r.menu)
                  /\ UNCHANGED << game_mode, player, ai, ball, math_sys,
                                  particles, level, start_time, game_time_str,
                                  winner_text, last_math_time, sudden_death,
                                  total_hits, ball_current_base_speed >>
             [] OTHER ->
                  /\ menu' = r.menu
                  /\ UNCHANGED engine_vars
    /\ running' = ~quit
    /\ ev' = Ev("frame", "paused", "", 0)

\* the game_over branch sending the open hand back into the match
GameOverFrame_resume(hd, dt, quit) ==
    /\ FrameStart(dt)
    /\ state = "game_over"
    /\ IF HandGesture(hd) = "5"
       THEN /\ state' = "playing"
            /\ menu' = reset_cooldown(menu)
       ELSE UNCHANGED << state, menu >>
    /\ running' = ~quit
    /\ ev' = Ev("frame", "game_over", "", 0)
    /\ UNCHANGED << game_mode, player, ai, ball, math_sys, particles, level,
                    start_time, game_time_str, winner_text, last_math_time,
                    sudden_death, total_hits, ball_current_base_speed >>

\* the game_over branch: the open hand ("5") returns to the main menu
GameOverFrame(hd, dt, quit) ==
    /\ FrameStart(dt)
    /\ state = "game_over"
    /\ IF HandGesture(hd) = "5"
       THEN /\ state' = "menu"
            /\ menu' = reset_cooldown(menu)
       ELSE UNCHANGED << state, menu >>
    /\ running' = ~quit
    /\ ev' = Ev("frame", "game_over", "", 0)
    /\ UNCHANGED << game_mode, player, ai, ball, math_sys, particles, level,
                    start_time, game_time_str, winner_text, last_math_time,
                    sudden_death, total_hits, ball_current_base_speed >>

\* ------------------------------------------------------- specifications
\* the inputs the runs draw from
Modes == { "bot", "pvp" }
DirXs == { -1, 1 }
MatchDirYs == { 5 }
NoFrame == [ ret |-> FALSE, angle |-> 0, gesture |-> "None", pause_progress |-> 0 ]
HandDatas ==
    [ ret : { TRUE }, angle : { 180 }, gesture : { "neutral" },
      pause_progress : { 0, 100 } ] \cup { NoFrame }
MatchSteps == { 0, 600 }

MatchTimes == { t \in { now + d : d \in MatchSteps } : t <= MaxTime }

\* the match: start, the update tick, the ball and the score
NextMatch ==
    \/ \E mode \in Modes, dx \in DirXs, dy \in MatchDirYs, t \in MatchTimes :
           StartGame(mode, dx, dy, t)
    \/ \E hd \in HandDatas, t \in MatchTimes : Update(hd, t)
    \/ \E t \in MatchTimes : UpdateTimeAndCheckWin(t)
    \/ \E t \in MatchTimes : BallFlight(t)
    \/ \E dx \in DirXs, dy \in MatchDirYs : CheckScore(dx, dy)

SpecMatch == Init /\ [][NextMatch]_vars

\* the menu's inputs: the list shown with its hold time, the gesture and
\* the frame time
MenuScreens == { << main_menu, MENU_HOLD_TIME >>,
                 << pause_menu, PAUSE_SELECTION_TIME >> }
MenuGestures == { "neutral", "1", "2", "5" }
MenuTimes == { 5, 10 }

\* a menu of its own: updates on either list and cooldown resets
NextMenu ==
    \/ \E sc \in MenuScreens, gesture \in MenuGestures, dt \in MenuTimes :
           MenuUpdate(sc[1], gesture, dt, sc[2])
    \/ MenuResetCooldown

SpecMenu == Init /\ [][NextMenu]_vars

\* the match with update also called outside the playing state
NextIdle ==
    \/ NextMatch
    \/ \E hd \in HandDatas, t \in MatchTimes : UpdateNotPlaying(hd, t)

SpecIdle == Init /\ [][NextIdle]_vars

\* the powerup-level runs' inputs: clock steps, the random draws of
\* generate_task (a stream of attempts), the gesture, the digit keys held
\* down and the index random.choice draws from the roster
PowerSteps == { 0, 150 }
PowerTimes == { t \in { now + d : d \in PowerSteps } : t <= MaxPowerTime }
DrawSum ==
    [ type |-> "two_operands", a |-> 2, b |-> 3, c |-> 1, op1 |-> "+",
      op2 |-> "+", a2 |-> 2, b2 |-> 3, opf |-> "+", r |-> 1 ]
DrawQuotient ==
    [ type |-> "three_operands", a |-> 4, b |-> 2, c |-> 1, op1 |-> "/",
      op2 |-> "-", a2 |-> 1, b2 |-> 1, opf |-> "+", r |-> 1 ]
DrawBig ==
    [ type |-> "two_operands", a |-> 6, b |-> 6, c |-> 1, op1 |-> "+",
      op2 |-> "+", a2 |-> 6, b2 |-> 6, opf |-> "*", r |-> 1 ]
DrawStreams == { << DrawSum >>, << DrawBig, DrawQuotient >>, << DrawBig >> }
PowerGestures == { "neutral", "1", "5" }
PowerKeys == { {}, { 1 }, { 5 } }
RosterChoices == 1..6
PauseHand ==
    [ ret |-> TRUE, angle |-> 180, gesture |-> "neutral", pause_progress |-> 100 ]

\* the ball has made fewer than PowerBallSteps moves since its respawn
BallNear ==
    LET d == ball.x - SubPx(GAME_AREA_X + GAME_AREA_WIDTH \div 2)
    IN  (IF d < 0 THEN -d ELSE d) < PowerBallSteps * SubPx(BALL_START_SPEED)

\* the powerups: a match is started (or restarted from the pause menu),
\* math tasks are generated and resolved, paddles and ball age.  A tick of
\* _manage_math_tasks without an active task reads only the draws, one with
\* an active task only the gesture, the keys and the roster choice.
NextPowerup ==
    \/ \E mode \in Modes, dx \in DirXs, dy \in MatchDirYs, t \in PowerTimes :
           StartGame(mode, dx, dy, t)
    \/ \E t \in PowerTimes : Update(PauseHand, t)
    \/ \E who \in { "player", "ai" }, t \in PowerTimes : PaddleUpdate(who, t)
    \/ \E t \in PowerTimes : BallNear /\ BallUpdate(t)
    \/ \E t \in PowerTimes, draws \in DrawStreams :
           /\ ~math_sys.active
           /\ ManageMathTasks(t, "neutral", {}, draws, 1)
    \/ \E t \in PowerTimes, gesture \in PowerGestures, keys \in PowerKeys,
          choice \in RosterChoices :
           /\ math_sys.active
           /\ ManageMathTasks(t, gesture, keys, << DrawSum >>, choice)

SpecPowerup == Init /\ [][NextPowerup]_vars

\* the answers: ticks of _manage_math_tasks with any gesture, whether a
\* task is active (the tick reads the gesture, the keys and the roster
\* choice) or not (it reads the clock and the draws), and check_answer
\* called on its own with each digit
Answers == 0..5

NextAnswer ==
    \/ \E mode \in Modes, t \in PowerTimes : StartGame(mode, 1, 5, t)
    \/ \E t \in PowerTimes, gesture \in PowerGestures, draws \in DrawStreams :
           /\ ~math_sys.active
           /\ ManageMathTasks(t, gesture, {}, draws, 1)
    \/ \E t \in PowerTimes, gesture \in PowerGestures, keys \in PowerKeys,
          choice \in RosterChoices :
           /\ math_sys.active
           /\ ManageMathTasks(t, gesture, keys, << DrawSum >>, choice)
    \/ \E a \in Answers : CheckAnswer(a)

SpecAnswer == Init /\ [][NextAnswer]_vars

\* the task runs' inputs: the clock steps of a tick while a task is
\* active, and the steps of a tick without one
TaskSteps == { 10, 50 }
TaskIdleSteps == { 50, 260 }

\* a tick of _manage_math_tasks with a task active, at a later clock time
TaskTick ==
    \E d \in TaskSteps, gesture \in { "neutral", "5" }, keys \in { {}, { 1 } } :
        /\ math_sys.active
        /\ now + d <= MaxTaskTime
        /\ ManageMathTasks(now + d, gesture, keys, << DrawSum >>, 1)

\* a match in which tasks come and go: ticks without a task (a task is
\* generated only if the clock has room for its duration), ticks with one,
\* the pause and the restart from the pause menu
NextTask ==
    \/ \E mode \in Modes : StartGame(mode, 1, 5, now)
    \/ Update(PauseHand, now)
    \/ \E d \in TaskIdleSteps, draws \in DrawStreams :
           /\ ~math_sys.active
           /\ now + d + TASK_DURATION <= MaxTaskTime
           /\ ManageMathTasks(now + d, "neutral", {}, draws, 1)
    \/ TaskTick

\* update runs every frame of the main loop and reads time.time(), so in
\* the playing state ticks with a later clock time keep coming
SpecTask == Init /\ [][NextTask]_vars /\ WF_vars(TaskTick)

\* the rally-level runs' inputs: the player's targets (the paddle centred
\* on the respawned ball, and one that lets that ball pass), the
\* opponent's key, KEYBOARD_SPEED * dt for a 16 ms frame, and the
\* respawn's vertical draw
RallyModes == { "bot" }
RallyTargets == { SubPx(470), SubPx(300) }
RallyMove == SubPx(16)
RallyDirYs == { 0, 5 }

\* the ball's next step takes it out of the field on the x-axis
BallLeaving ==
    \/ ball.x + ball.vx < SubPx(GAME_AREA_X - 20)
    \/ ball.x + ball.vx > SubPx(GAME_AREA_X + GAME_AREA_WIDTH + 20)

\* the rally: a match is started and its ticks' physics follow.  Only a
\* tick on which the ball leaves the field reads the respawn's draws.
NextRally ==
    \/ \E mode \in RallyModes, dx \in DirXs, dy \in RallyDirYs :
           StartGame(mode, dx, dy, now)
    \/ \E target_y \in RallyTargets :
           /\ ~BallLeaving
           /\ PhysicsStep(target_y, "none", RallyMove, 1, 0, now)
    \/ \E target_y \in RallyTargets, dx \in DirXs, dy \in RallyDirYs :
           /\ BallLeaving
           /\ PhysicsStep(target_y, "none", RallyMove, dx, dy, now)

SpecRally == Init /\ [][NextRally]_vars

\* the edge-hit runs' inputs: the player's targets, the paddle centred on
\* the respawned ball and 80 pixels above that, so that the ball meets
\* the paddle's lower end
EdgeTargets == { SubPx(470), SubPx(390) }

\* short rallies with hits near a paddle's end, in both modes (no arrow
\* key held); at most MaxEdgeHits paddle hits are followed
NextEdge ==
    \/ \E mode \in Modes, dx \in DirXs : StartGame(mode, dx, 0, now)
    \/ \E target_y \in EdgeTargets :
           /\ total_hits < MaxEdgeHits
           /\ ~BallLeaving
           /\ PhysicsStep(target_y, "none", RallyMove, 1, 0, now)
    \/ \E target_y \in EdgeTargets, dx \in DirXs, dy \in RallyDirYs :
           /\ total_hits < MaxEdgeHits
           /\ BallLeaving
           /\ PhysicsStep(target_y, "none", RallyMove, dx, dy, now)

SpecEdge == Init /\ [][NextEdge]_vars

\* the hand angles of the angle-mapping runs, in whole degrees: both sides
\* of every threshold of map_angle_to_paddle_y, and angles outside 0 .. 360
AngleInputs ==
    { -190, 0, 99, 100, 140, 174, 175, 185, 186, 215, 250, 251, 359, 460 }

\* the angle mapping: a match is started, math tasks are generated and won
\* by the player (so that the player's paddle takes every height), and the
\* hand angle is mapped for the paddle as it is
NextAngle ==
    \/ \E t \in PowerTimes : StartGame("bot", 1, 0, t)
    \/ \E t \in PowerTimes :
           /\ ~math_sys.active
           /\ ManageMathTasks(t, "neutral", {}, << DrawSum >>, 1)
    \/ \E t \in PowerTimes, gesture \in { "neutral", "5" },
          choice \in RosterChoices :
           /\ math_sys.active
           /\ ManageMathTasks(t, gesture, {}, << DrawSum >>, choice)
    \/ \E angle \in AngleInputs : MapAngle(angle)

SpecAngle == Init /\ [][NextAngle]_vars

\* the equation runs' inputs: every draw of _generate_two_operands, and
\* every draw of _generate_three_operands with one fallback draw (5 / 3,
\* redrawn as 3 / 3); one attempt's draws are repeated for all attempts
Ops == { "+", "-", "*", "/" }
EquationDraws ==
    [ type : { "two_operands" }, a : 1..6, b : 1..6, c : { 1 },
      op1 : { "+" }, op2 : { "+" }, a2 : { 1 }, b2 : { 1 }, opf : Ops,
      r : 1..3 ]
    \cup
    [ type : { "three_operands" }, a : 1..5, b : 1..5, c : 1..4,
      op1 : Ops, op2 : { "+", "-" }, a2 : { 5 }, b2 : { 3 }, opf : { "/" },
      r : { 1 } ]
EquationTimes == { t \in { now + d : d \in PowerSteps } : t <= MaxEquationTime }

\* the equations: a bot match is started and its first task is generated
\* from any draw, then left to time out.  Only a tick past the interval
\* reads the draws.
NextEquation ==
    \/ \E t \in EquationTimes : StartGame("bot", 1, 0, t)
    \/ \E t \in EquationTimes :
           /\ ~math_sys.active
           /\ t - last_math_time <= MATH_TASK_INTERVAL
           /\ ManageMathTasks(t, "neutral", {}, << DrawSum >>, 1)
    \/ \E t \in EquationTimes, d \in EquationDraws :
           /\ ~math_sys.active
           /\ t - last_math_time > MATH_TASK_INTERVAL
           /\ ManageMathTasks(t, "neutral", {}, << d >>, 1)
    \/ \E t \in EquationTimes :
           /\ math_sys.active
           /\ ManageMathTasks(t, "neutral", {}, << DrawSum >>, 1)

SpecEquation == Init /\ [][NextEquation]_vars

\* the ghost-ball runs' inputs: the clock steps of a tick, the clock step
\* that lets the task interval pass, and the roster choices (enlarge or
\* ghost)
GhostSteps == { 1, 2 }
GhostTaskStep == 260
GhostChoices == { 1, 6 }

\* a match against the bot in which the player answers a math task and
\* may win the ghost ball: ticks' physics, and ticks of _manage_math_tasks
\* (without an active task reading the clock, with one reading the
\* gesture and the roster choice)
NextGhost ==
    \/ StartGame("bot", 1, 5, now)
    \/ \E d \in GhostSteps :
           /\ now + d <= MaxGhostTime
           /\ PhysicsStep(SubPx(470), "none", RallyMove, 1, 5, now + d)
    \/ \E d \in GhostSteps \cup { GhostTaskStep } :
           /\ ~math_sys.active
           /\ now + d <= MaxGhostTime
           /\ ManageMathTasks(now + d, "neutral", {}, << DrawSum >>, 1)
    \/ \E gesture \in { "neutral", "5" }, choice \in GhostChoices :
           /\ math_sys.active
           /\ ManageMathTasks(now, gesture, {}, << DrawSum >>, choice)

SpecGhost == Init /\ [][NextGhost]_vars

\* the camera's inputs: what MediaPipe detects in a frame.  A hand is its
\* handedness label, the anchor and target points (the target one step
\* from the anchor: to the left, 180 degrees, or up and to the left, -135
\* degrees in image coordinates) and the gesture classified for it.
Hand(label, target, gesture) ==
    [ label |-> label, anchor |-> << 0, 0 >>, target |-> target,
      gesture |-> gesture ]

RightHands == { Hand("Right", << -1, 0 >>, "neutral"),
                Hand("Right", << -1, -1 >>, "3") }
LeftHand == Hand("Left", << 1, 0 >>, "neutral")

\* no hand; one hand (dominant or not); two hands, in the pause pose or
\* not, with or without the dominant hand among them
Detections ==
    { [ hands |-> << >>, x_pose |-> FALSE ] }
      \cup { [ hands |-> << r >>, x_pose |-> FALSE ] : r \in RightHands }
      \cup { [ hands |-> << LeftHand >>, x_pose |-> FALSE ] }
      \cup { [ hands |-> << LeftHand, r >>, x_pose |-> x ] :
                 r \in RightHands, x \in BOOLEAN }
      \cup { [ hands |-> << LeftHand, LeftHand >>, x_pose |-> TRUE ] }

\* the time dt between two camera frames, in tenths of a second
CameraTimes == { 5 }

\* the camera frames of a session, one process call each
NextHand == \E res \in Detections, dt \in CameraTimes : HandProcess(res, dt)

SpecHand == Init /\ [][NextHand]_vars

\* the smoothing filter's inputs: the smoothing factor in 1/10000 (0, the
\* controller's initial 0.2, and 1) and the new value in tenths of a degree
EmaAlphas == { 0, START_ALPHA, 10000 }
EmaValues == { -1350, 900, 1800 }

\* a filter of its own: updates and resets in any order
NextSmoother ==
    \/ \E alpha \in EmaAlphas, v \in EmaValues : EmaUpdate(alpha, v)
    \/ EmaReset

SpecSmoother == Init /\ [][NextSmoother]_vars

\* the main loop's inputs: the frame's hand_data and the frame time
LoopGestures == { "neutral", "1", "2", "3", "5" }
LoopHandDatas ==
    [ ret : { TRUE }, angle : { 180 }, gesture : LoopGestures,
      pause_progress : { 0, 100 } ] \cup { NoFrame }
FrameTimes == { 5 }

\* run_game_loop, one frame at a time.  The rest of a playing tick (the
\* ball's flight and _check_score, update lines 108 and 111) is kept next
\* to the frames, so that the loop is followed through the end of a match.
Next ==
    \/ \E hd \in LoopHandDatas, dt \in FrameTimes, quit \in BOOLEAN,
          dx \in DirXs, dy \in MatchDirYs : MenuFrame(hd, dt, quit, dx, dy)
    \/ \E hd \in LoopHandDatas, dt \in FrameTimes, quit \in BOOLEAN,
          dx \in DirXs, dy \in MatchDirYs : DifficultyFrame(hd, dt, quit, dx, dy)
    \/ \E hd \in LoopHandDatas, dt \in FrameTimes, quit \in BOOLEAN :
          ConfirmExitFrame(hd, dt, quit)
    \/ \E hd \in LoopHandDatas, dt \in FrameTimes, quit \in BOOLEAN :
          PlayingFrame(hd, dt, quit)
    \/ \E hd \in LoopHandDatas, dt \in FrameTimes, quit \in BOOLEAN,
          dx \in DirXs, dy \in MatchDirYs : PausedFrame(hd, dt, quit, dx, dy)
    \/ \E hd \in LoopHandDatas, dt \in FrameTimes, quit \in BOOLEAN :
          GameOverFrame(hd, dt, quit)
    \/ BallFlight(now)
    \/ \E dx \in DirXs, dy \in MatchDirYs : CheckScore(dx, dy)

Spec == Init /\ [][Next]_vars


\* --------------------------------------------------------------- claims
\* C1: when a scoring event brings a side's score to WIN_SCORE, that same
\* _check_score leaves the state game_over and winner_text naming the side
\* that reached WIN_SCORE.
C1_WinScoreEndsMatch ==
    /\ (ev.op = "check_score" /\ ev.tag = "left" /\ ai.score = WIN_SCORE)
          => (state = "game_over" /\ winner_text = "PLAYER 2 WINS")
    /\ (ev.op = "check_score" /\ ev.tag = "right" /\ player.score = WIN_SCORE)
          => (state = "game_over" /\ winner_text = "PLAYER 1 WINS")

\* a bot match that the opponent won 5 : 0
C1_Witness ==
    /\ ev.op = "check_score" /\ ev.tag = "left"
    /\ game_mode = "bot"
    /\ ai.score = WIN_SCORE /\ player.score = 0
    /\ state = "game_over" /\ winner_text = "PLAYER 2 WINS"

\* C2: an update tick in the playing state whose elapsed time is at least
\* the time limit, with unequal scores, ends the match for the side with
\* the higher score and updates no paddle, ball, score or math task.
C2_TimeLimitEndsMatch ==
    [][ ( /\ state = "playing"
          /\ ev'.op = "update"
          /\ now' - start_time >= TIME_LIMIT
          /\ player.score # ai.score )
        => ( /\ state' = "game_over"
             /\ winner_text' = IF player.score > ai.score
                               THEN "PLAYER 1 WINS" ELSE "PLAYER 2 WINS"
             /\ UNCHANGED << player, ai, ball, math_sys, last_math_time >> )
      ]_vars

\* a match ended by the time limit, below the win score
C2_Witness ==
    /\ ev.op = "update" /\ ev.tag = "time_limit"
    /\ state = "game_over"
    /\ now - start_time >= TIME_LIMIT
    /\ player.score # ai.score
    /\ player.score < WIN_SCORE /\ ai.score < WIN_SCORE

\* C3: with equal scores at the time limit the time check leaves the match
\* running with sudden_death set (the update tick does not end it), and
\* the first scoring event under sudden_death ends it in that same
\* _check_score, for the side that scored.
C3_SuddenDeath ==
    [][ /\ ( /\ state = "playing"
             /\ ev'.op = "update_time_and_check_win"
             /\ now' - start_time >= TIME_LIMIT
             /\ player.score = ai.score )
           => (state' = "playing" /\ sudden_death')
        /\ ( /\ state = "playing"
             /\ ev'.op = "update"
             /\ now' - start_time >= TIME_LIMIT
             /\ player.score = ai.score )
           => ( /\ sudden_death'
                /\ state' = IF ev'.inp >= 100 THEN "paused" ELSE "playing" )
        /\ ( /\ state = "playing" /\ sudden_death
             /\ ev'.op = "check_score" /\ ev'.tag = "left" )
           => (state' = "game_over" /\ winner_text' = "PLAYER 2 WINS")
        /\ ( /\ state = "playing" /\ sudden_death
             /\ ev'.op = "check_score" /\ ev'.tag = "right" )
           => (state' = "game_over" /\ winner_text' = "PLAYER 1 WINS")
      ]_vars

\* a match decided in sudden death, below the win score
C3_Witness ==
    /\ ev.op = "check_score" /\ ev.tag = "right"
    /\ sudden_death
    /\ state = "game_over" /\ winner_text = "PLAYER 1 WINS"
    /\ player.score = ai.score + 1
    /\ player.score < WIN_SCORE

\* C5: an update tick in the playing state that the time limit does not
\* end and whose pause_progress is at least 1.0 leaves the state paused
\* and changes no paddle, ball, score, hit count, level, base speed, math
\* task or particle.
C5_PauseTick ==
    [][ ( /\ state = "playing"
          /\ ev'.op = "update"
          /\ ev'.tag # "time_limit"
          /\ ev'.inp >= 100 )
        => ( /\ state' = "paused"
             /\ UNCHANGED << player, ai, ball, total_hits, level,
                             ball_current_base_speed, math_sys,
                             last_math_time, particles >> )
      ]_vars

\* a match paused after points have been scored
C5_Witness ==
    /\ ev.op = "update" /\ ev.tag = "paused" /\ ev.inp >= 100
    /\ state = "paused"
    /\ player.score + ai.score > 0


\* the changes of engine.state run_game_loop and the engine make
LoopEdges ==
    { << "menu", "difficulty_select" >>, << "menu", "playing" >>,
      << "menu", "confirm_exit" >>, << "confirm_exit", "menu" >>,
      << "difficulty_select", "menu" >>, << "difficulty_select", "playing" >>,
      << "playing", "paused" >>, << "paused", "playing" >>,
      << "paused", "menu" >>,
      << "playing", "game_over" >>, << "game_over", "menu" >> }

\* C4 as stated: engine.state is one of menu, difficulty_select, playing,
\* paused, game_over and changes only along menu -> difficulty_select ->
\* playing <-> paused, playing -> game_over -> menu.
C4_ChainOnly ==
    [][ /\ state' \in { "menu", "difficulty_select", "playing", "paused",
                        "game_over" }
        /\ (state' # state =>
               << state, state' >> \in
                   { << "menu", "difficulty_select" >>,
                     << "difficulty_select", "playing" >>,
                     << "playing", "paused" >>, << "paused", "playing" >>,
                     << "playing", "game_over" >>,
                     << "game_over", "menu" >> }) ]_vars

\* C4, amended: engine.state is one of menu, difficulty_select,
\* confirm_exit, playing, paused, game_over, and it changes only along the
\* chain's edges or one of menu -> playing (VS PLAYER), menu <->
\* confirm_exit, difficulty_select -> menu (BACK), paused -> menu (QUIT TO
\* MENU).
C4_StateGraph ==
    [][ /\ state' \in { "menu", "difficulty_select", "confirm_exit",
                        "playing", "paused", "game_over" }
        /\ (state' # state => << state, state' >> \in LoopEdges) ]_vars

\* a paused match left for the main menu by QUIT TO MENU
C4_Witness ==
    /\ ev.op = "frame" /\ ev.tag = "paused"
    /\ state = "menu"
    /\ menu.ignore_timer = MENU_TRANSITION_DELAY


\* C6 as stated: each paddle's height is 50%, 100% or 150% of
\* PADDLE_HEIGHT, whichever powerup is active on it.
C6_HeightLevels ==
    \A p \in { player, ai } :
        p.height \in { PADDLE_HEIGHT \div 2, PADDLE_HEIGHT,
                       (PADDLE_HEIGHT * 3) \div 2 }

\* C7: after a Paddle.update whose current_time is greater than the
\* paddle's powerup_end_time, and after the Paddle.reset of start_game, the
\* paddle has height PADDLE_HEIGHT, is_trampoline and has_agility false and
\* active_powerup_text None.
C7_ExpiryAndResetClear ==
    LET base(p) == /\ p.height = PADDLE_HEIGHT
                   /\ ~p.is_trampoline
                   /\ ~p.has_agility
                   /\ p.active_powerup_text = "None"
    IN  /\ (ev.op = "paddle_update" /\ ev.tag = "player"
               /\ now > player.powerup_end_time) => base(player)
        /\ (ev.op = "paddle_update" /\ ev.tag = "ai"
               /\ now > ai.powerup_end_time) => base(ai)
        /\ ev.op = "start_game" => (base(player) /\ base(ai))

\* a paddle update that has just cleared an expired powerup
C7_Witness ==
    /\ ev.op = "paddle_update" /\ ev.tag = "player" /\ ev.eff = "cleared"
    /\ now > player.powerup_end_time /\ player.powerup_end_time > 0
    /\ player.active_powerup_text = "None"

\* C8 as stated: a math task resolved with tiny or ghost leaves
\* active_powerup_text, powerup_end_time, height, is_trampoline and
\* has_agility of both paddles unchanged.
C8_PaddlesUntouched ==
    [][ (ev'.op = "manage_math_tasks" /\ ev'.eff \in { "tiny", "ghost" })
        => UNCHANGED << player, ai >> ]_vars

\* C8, amended: a math task resolved with tiny or ghost sets the ball's
\* modifier and its expiry, leaves height, is_trampoline and has_agility of
\* both paddles and everything of the paddle that did not win unchanged,
\* and writes the effect's name and the expiry t + POWERUP_DURATION into
\* the winning paddle's active_powerup_text and powerup_end_time.
C8_BallEffectMarksWinner ==
    [][ (ev'.op = "manage_math_tasks" /\ ev'.eff \in { "tiny", "ghost" })
        => LET name == IF ev'.eff = "tiny" THEN "TINY BALL" ELSE "GHOST BALL"
               mark(p) == [ p EXCEPT !.active_powerup_text = name,
                                     !.powerup_end_time = now' + POWERUP_DURATION ]
           IN  /\ ball'.is_tiny = (ev'.eff = "tiny")
               /\ ball'.is_ghost = (ev'.eff = "ghost")
               /\ ball'.modifier_end_time = now' + POWERUP_DURATION
               /\ IF ev'.tag = "resolve_player"
                  THEN player' = mark(player) /\ ai' = ai
                  ELSE ai' = mark(ai) /\ player' = player ]_vars

\* a ghost ball won by the player whose paddle is still enlarged
C8_Witness ==
    /\ ev.op = "manage_math_tasks" /\ ev.tag = "resolve_player"
    /\ ev.eff = "ghost"
    /\ player.active_powerup_text = "GHOST BALL"
    /\ player.height = (PADDLE_HEIGHT * 3) \div 2
    /\ ball.is_ghost

\* C9: apply_powerup clears first: whatever the paddle had, after a math
\* task resolved with a paddle effect the paddle it went to has the height,
\* is_trampoline and has_agility of that effect alone, the effect's name
\* and the expiry current_time + POWERUP_DURATION.
C9_LastPowerupWins ==
    [][ (ev'.op = "manage_math_tasks"
           /\ ev'.eff \in { "enlarge", "shrink", "trampoline", "agility" })
        => LET mine == IF ev'.tag = "resolve_player" THEN player' ELSE ai'
               theirs == IF ev'.tag = "resolve_player" THEN ai' ELSE player'
               p == IF ev'.eff = "shrink" THEN theirs ELSE mine
           IN  /\ p.height = CASE ev'.eff = "enlarge" -> (PADDLE_HEIGHT * 3) \div 2
                                [] ev'.eff = "shrink" -> PADDLE_HEIGHT \div 2
                                [] ev'.eff = "trampoline" -> TRAMPOLINE_HEIGHT
                                [] OTHER -> PADDLE_HEIGHT
               /\ p.is_trampoline = (ev'.eff = "trampoline")
               /\ p.has_agility = (ev'.eff = "agility")
               /\ p.active_powerup_text =
                      CASE ev'.eff = "enlarge" -> "ENLARGE"
                        [] ev'.eff = "shrink" -> "SHRINK"
                        [] ev'.eff = "trampoline" -> "TRAMPOLINE"
                        [] OTHER -> "AGILITY"
               /\ p.powerup_end_time = now' + POWERUP_DURATION ]_vars

\* agility given to a paddle that still had the trampoline
C9_Witness ==
    /\ ev.op = "manage_math_tasks" /\ ev.tag = "resolve_player"
    /\ ev.eff = "agility"
    /\ player.has_agility /\ ~player.is_trampoline
    /\ player.height = PADDLE_HEIGHT
    /\ Len(particles) >= 80

\* C10: is_tiny and is_ghost are never both true; a task resolved with
\* tiny leaves only tiny active, one resolved with ghost only ghost.
C10_OneBallModifier ==
    /\ ~(ball.is_tiny /\ ball.is_ghost)
    /\ (ev.op = "manage_math_tasks" /\ ev.eff = "tiny")
          => (ball.is_tiny /\ ~ball.is_ghost)
    /\ (ev.op = "manage_math_tasks" /\ ev.eff = "ghost")
          => (ball.is_ghost /\ ~ball.is_tiny)

\* a ghost ball that replaced a tiny ball still running
C10_Witness ==
    /\ ev.op = "manage_math_tasks" /\ ev.eff = "ghost"
    /\ ball.is_ghost /\ ~ball.is_tiny
    /\ Len(particles) >= 80
    /\ \E p \in { player, ai } : p.active_powerup_text = "TINY BALL"


\* C11 as stated: once the ghost powerup has been applied at t for the
\* duration d, every Ball.update with current_time >= t + d leaves the ball
\* with is_ghost false and ghost_visible true.
C11_GhostEndsAtExpiry ==
    (ev.op = "ball_update" /\ now >= ball.modifier_end_time)
        => (~ball.is_ghost /\ ball.ghost_visible)


\* C12: in every state the base speed is min(BALL_START_SPEED +
\* SPEED_INCREMENT_PER_LEVEL * floor(N / HITS_PER_LEVEL), BALL_MAX_SPEED) for
\* the N paddle hits counted so far; it has reached the cap by N = 25,
\* before N = 40.
C12_BaseSpeedByHits ==
    /\ ball_current_base_speed =
           Min(BALL_START_SPEED
                   + SPEED_INCREMENT_PER_LEVEL * (total_hits \div HITS_PER_LEVEL),
               BALL_MAX_SPEED)
    /\ total_hits >= 25 => ball_current_base_speed = BALL_MAX_SPEED

\* a paddle hit has just brought the count to 30, a multiple of
\* HITS_PER_LEVEL past the cap
C12_Witness ==
    /\ ev.op = "physics" /\ ev.tag \in { "player", "ai" }
    /\ total_hits = 30
    /\ ball_current_base_speed = BALL_MAX_SPEED

\* C13 as stated: in every state the ball's speed sqrt(vx^2 + vy^2) is at
\* most BALL_MAX_SPEED, after every paddle hit and after every respawn at
\* the current base speed (compared by the squares, in tenths of a pixel).
C13_SpeedWithinMax ==
    ball.vx * ball.vx + ball.vy * ball.vy
        <= SubPx(BALL_MAX_SPEED) * SubPx(BALL_MAX_SPEED)

\* C14 as stated: after every paddle collision the outgoing angle is within
\* 50 degrees of the horizontal (the offset's magnitude is at most 1), and
\* vx is positive after a hit on the left (player) paddle and negative
\* after a hit on the right one.  ev.inp is the bounce angle in thousandths
\* of a degree.
C14_AngleWithinFifty ==
    (ev.op = "physics" /\ ev.tag \in { "player", "ai" })
        => /\ ev.inp <= BOUNCE_ANGLE * 1000
           /\ ev.inp >= -(BOUNCE_ANGLE * 1000)
           /\ ev.tag = "player" => ball.vx > 0
           /\ ev.tag = "ai" => ball.vx < 0

\* C15: a _check_score that finds the ball out of the field on the x-axis
\* adds exactly one to the opposing side's score (a left exit scores for
\* the right paddle, a right exit for the player), leaves the other score
\* unchanged and puts the ball back at the centre of the field, also when
\* the same call ends the match.
C15_ExitScoresOpponent ==
    [][ /\ ( ev'.op = "check_score" /\ ball.x < SubPx(GAME_AREA_X - 20) )
             => /\ ai'.score = ai.score + 1
                /\ player'.score = player.score
                /\ ball'.x = SubPx(GAME_AREA_X + GAME_AREA_WIDTH \div 2)
                /\ ball'.y = SubPx(GAME_AREA_Y + GAME_AREA_HEIGHT \div 2)
        /\ ( /\ ev'.op = "check_score"
             /\ ball.x > SubPx(GAME_AREA_X + GAME_AREA_WIDTH + 20) )
             => /\ player'.score = player.score + 1
                /\ ai'.score = ai.score
                /\ ball'.x = SubPx(GAME_AREA_X + GAME_AREA_WIDTH \div 2)
                /\ ball'.y = SubPx(GAME_AREA_Y + GAME_AREA_HEIGHT \div 2)
      ]_vars

\* the player's fifth point at 5 : 1: the ball went out on the right, the
\* match is over and the ball is back at the centre
C15_Witness ==
    /\ ev.op = "check_score" /\ ev.tag = "right"
    /\ player.score = WIN_SCORE /\ ai.score = 1
    /\ state = "game_over"
    /\ ball.x = SubPx(GAME_AREA_X + GAME_AREA_WIDTH \div 2)
    /\ ball.y = SubPx(GAME_AREA_Y + GAME_AREA_HEIGHT \div 2)

\* C16: after every Ball.update the ball's y is strictly between
\* GAME_AREA_Y and GAME_AREA_Y + GAME_AREA_HEIGHT; an update whose step
\* reached or crossed the top or the bottom boundary leaves the ball one
\* pixel inside it with vy reversed and pointing back into the field.
\* Stated on a tick's physics; the bounce on the ticks without a paddle hit
\* or a respawn, which leave the ball as Ball.update left it.
C16_BallStaysInField ==
    [][ ev'.op = "physics"
          => /\ ball'.y > SubPx(GAME_AREA_Y)
             /\ ball'.y < SubPx(GAME_AREA_Y + GAME_AREA_HEIGHT)
             /\ ( /\ ev'.tag = "none" /\ ev'.eff = "none"
                  /\ ball.y + ball.vy <= SubPx(GAME_AREA_Y) )
                  => /\ ball'.y = SubPx(GAME_AREA_Y + 1)
                     /\ ball'.vy = -ball.vy
                     /\ ball'.vy > 0
             /\ ( /\ ev'.tag = "none" /\ ev'.eff = "none"
                  /\ ball.y + ball.vy >= SubPx(GAME_AREA_Y + GAME_AREA_HEIGHT) )
                  => /\ ball'.y = SubPx(GAME_AREA_Y + GAME_AREA_HEIGHT - 1)
                     /\ ball'.vy = -ball.vy
                     /\ ball'.vy < 0
      ]_vars

\* a ball sent down steeply by the player's paddle has just bounced off the
\* bottom boundary
C16_Witness ==
    /\ ev.op = "physics" /\ ev.tag = "none" /\ ev.eff = "none"
    /\ ball.y = SubPx(GAME_AREA_Y + GAME_AREA_HEIGHT - 1)
    /\ ball.vy < 0

\* C17: for every hand angle and every paddle height the target y that
\* map_angle_to_paddle_y returns lies in [0, playfield height - paddle
\* height]; an angle outside the range PADDLE_ANGLE_UP .. PADDLE_ANGLE_DOWN
\* (after normalisation to 0 .. 360) is mapped to the nearer end of that
\* interval, without an error.
C17_TargetWithinField ==
    ev.op = "map_angle"
        => LET a == ev.inp[1] % 360
               y == ev.inp[2]
               max_y == SubPx(GAME_AREA_HEIGHT - player.height)
           IN  /\ 0 <= y /\ y <= max_y
               /\ a < PADDLE_ANGLE_UP => y = 0
               /\ a > PADDLE_ANGLE_DOWN => y = max_y

\* an angle just past PADDLE_ANGLE_DOWN mapped for an enlarged paddle
C17_Witness ==
    /\ ev.op = "map_angle"
    /\ ev.inp[1] = 251
    /\ player.height = 210
    /\ ev.inp[2] = SubPx(GAME_AREA_HEIGHT - 210)

\* C18 as stated: an update tick in the playing state that passes the
\* time-limit and the pause checks, with a hand angle in hand_data,
\* completes without an error and leaves the player's paddle top at
\* GAME_AREA_Y plus the clamped interpolation of the hand angle (180
\* degrees in these runs), whatever its position was before.
C18_UpdateMovesPaddle ==
    ( /\ ev.op = "update"
      /\ ev.tag \notin { "time_limit", "paused" }
      /\ ev.eff # "KeyError" )
        => /\ ev.eff = ""
           /\ SubPx(player.y) =
                  SubPx(GAME_AREA_Y)
                      + map_angle_to_paddle_y(180, GAME_AREA_HEIGHT, player.height,
                                              PADDLE_ANGLE_UP, PADDLE_ANGLE_DOWN)[1]

\* C19: after every generate_task that returned True, and in every state
\* with an active task, correct_answer is an integer from 0 to 5.
C19_AnswerInRange ==
    ( math_sys.active
      \/ (ev.op = "manage_math_tasks" /\ ev.tag = "generated") )
        => math_sys.correct_answer \in 0..5

\* a task whose first attempt (6 * 6 = 36) was rejected and whose second
\* attempt, 4 / 2 - 1 = 1, became the task
C19_Witness ==
    /\ ev.op = "manage_math_tasks" /\ ev.tag = "generated"
    /\ math_sys.active
    /\ math_sys.equation_string = << 4, "/", 2, "-", 1 >>
    /\ math_sys.correct_answer = 1

\* C20: within one session (between two MathSystem.reset calls) no two
\* successful generate_task calls produce the same equation_string: a
\* generated equation is none of those generated earlier in the session,
\* it is recorded in used_equations, and nothing but the reset of
\* start_game removes an equation from used_equations.
C20_EquationsUnique ==
    [][ /\ ( ev'.op = "manage_math_tasks" /\ ev'.tag = "generated" )
             => /\ math_sys'.equation_string \notin math_sys.used_equations
                /\ math_sys'.used_equations =
                       math_sys.used_equations \cup { math_sys'.equation_string }
        /\ ev'.op # "start_game"
             => math_sys.used_equations \subseteq math_sys'.used_equations
      ]_vars

\* the second task of a session: 4 / 2 - 1 after 2 + 3
C20_Witness ==
    /\ ev.op = "manage_math_tasks" /\ ev.tag = "generated"
    /\ math_sys.used_equations = { << 2, "+", 3 >>, << 4, "/", 2, "-", 1 >> }
    /\ math_sys.equation_string = << 4, "/", 2, "-", 1 >>

\* C21: a _manage_math_tasks tick that finds an active task whose time left
\* is <= 0 and that resolves it for no answer: in bot mode the task is
\* resolved for the bot (inactive, and one effect of the bot's roster is
\* applied); in PvP mode the task becomes inactive and both paddles and the
\* ball stay as they were.
C21_TimeoutByMode ==
    [][ ( /\ ev'.op = "manage_math_tasks"
          /\ math_sys.active
          /\ math_sys.task_duration - (now' - math_sys.task_start_time) <= 0
          /\ ev'.tag \notin { "resolve_player", "resolve_opponent" } )
          => /\ ~math_sys'.active
             /\ game_mode = "bot"
                  => /\ ev'.tag = "resolve_bot"
                     /\ \E i \in 1..6 :
                          LET pick == Roster("ai", "player")[i]
                              r == apply_effect(player, ai, ball, pick[1],
                                                pick[2], pick[3], now', "ai")
                          IN  /\ ev'.eff = pick[1]
                              /\ player' = r.player
                              /\ ai' = r.ai
                              /\ ball' = r.ball
             /\ game_mode = "pvp"
                  => /\ player' = player
                     /\ ai' = ai
                     /\ ball' = ball
      ]_vars

\* a bot match's task timed out and the bot's roster gave SHRINK for the
\* player's paddle
C21_Witness ==
    /\ ev.op = "manage_math_tasks" /\ ev.tag = "resolve_bot"
    /\ game_mode = "bot"
    /\ ev.eff = "shrink"
    /\ player.height = PADDLE_HEIGHT \div 2
    /\ ~math_sys.active

\* C22: a math task is generated only by a _manage_math_tasks tick that
\* finds no active task and more than MATH_TASK_INTERVAL elapsed since the
\* last generation (or the match's start); the new task starts at the
\* tick's time, more than MATH_TASK_INTERVAL after the start of the task
\* before it, and the tick's time becomes the last generation's.
C22_GenerationInterval ==
    [][ ( ev'.op = "manage_math_tasks" /\ ev'.tag = "generated" )
          => /\ ~math_sys.active
             /\ math_sys'.active
             /\ now' - last_math_time > MATH_TASK_INTERVAL
             /\ now' - math_sys.task_start_time > MATH_TASK_INTERVAL
             /\ math_sys'.task_start_time = now'
             /\ last_math_time' = now'
      ]_vars

\* the second task of a match has just been generated
C22_Witness ==
    /\ ev.op = "manage_math_tasks" /\ ev.tag = "generated"
    /\ Cardinality(math_sys.used_equations) = 2
    /\ math_sys.task_start_time = now
    /\ last_math_time = now
    /\ now - start_time > 2 * MATH_TASK_INTERVAL

\* C23: a _manage_math_tasks tick whose generate_task used up its attempts
\* leaves the MathSystem as it was (no active task; equation_string,
\* correct_answer, used_equations and task_start_time unchanged) and
\* last_math_time unchanged, so that the interval check still passes at the
\* next tick.
C23_FailedGenerationSkipped ==
    [][ ( ev'.op = "manage_math_tasks" /\ ev'.tag = "skipped" )
          => /\ math_sys' = math_sys
             /\ ~math_sys'.active
             /\ last_math_time' = last_math_time
             /\ now' - last_math_time' > MATH_TASK_INTERVAL
      ]_vars

\* a tick of a session that had used 2 + 3 gave up after max_attempts
\* attempts
C23_Witness ==
    /\ ev.op = "manage_math_tasks" /\ ev.tag = "skipped"
    /\ << 2, "+", 3 >> \in math_sys.used_equations
    /\ ~math_sys.active
    /\ now - last_math_time > MATH_TASK_INTERVAL

\* the value of a displayed equation under the standard precedence: a op b,
\* or a op1 b op2 c with * and / binding tighter than + and -, and operators
\* of one level taken from the left (division as the exact quotient's floor)
ApplyOp(x, op, y) ==
    CASE op = "+" -> x + y
      [] op = "-" -> x - y
      [] op = "*" -> x * y
      [] OTHER    -> x \div y

EquationValue(eq) ==
    IF Len(eq) = 3
    THEN ApplyOp(eq[1], eq[2], eq[3])
    ELSE IF eq[2] \in { "+", "-" } /\ eq[4] \in { "*", "/" }
    THEN ApplyOp(eq[1], eq[2], ApplyOp(eq[3], eq[4], eq[5]))
    ELSE ApplyOp(ApplyOp(eq[1], eq[2], eq[3]), eq[4], eq[5])

\* every division shown in the equation has a divisor other than zero that
\* divides its dividend
DivisionsExact(eq) ==
    /\ eq[2] = "/" => (eq[3] # 0 /\ eq[1] % eq[3] = 0)
    /\ (Len(eq) = 5 /\ eq[4] = "/")
          => /\ eq[5] # 0
             /\ IF eq[2] \in { "+", "-" }
                THEN eq[3] % eq[5] = 0
                ELSE ApplyOp(eq[1], eq[2], eq[3]) % eq[5] = 0

\* C24: for every generated task the displayed equation has no division by
\* zero and no division with a non-integer quotient, and correct_answer is
\* the equation's value under the standard arithmetic precedence, for the
\* two-operand and the three-operand form.
C24_AnswerIsEquationValue ==
    math_sys.active
        => /\ DivisionsExact(math_sys.equation_string)
           /\ math_sys.correct_answer = EquationValue(math_sys.equation_string)

\* a three-operand task with a division: 4 / 2 + 3 = 5
C24_Witness ==
    /\ ev.op = "manage_math_tasks" /\ ev.tag = "generated"
    /\ math_sys.active
    /\ math_sys.equation_string = << 4, "/", 2, "+", 3 >>
    /\ math_sys.correct_answer = 5

\* C25: for alpha in [0, 1], the first ExponentialMovingAverage.update after
\* construction or reset returns its input exactly; every later update
\* returns alpha * new + (1 - alpha) * previous (here rounded to a tenth of
\* a degree), a value between the previous smoothed value and the new input
\* inclusive.
C25_SmoothingIsConvex ==
    [][ ev'.op = "ema_update"
          => LET a == hand'.smoother.alpha
                 prev == hand.smoother.value
                 new == ev'.inp
                 v == hand'.smoother.value
                 exact == a * new + (10000 - a) * prev
             IN  /\ hand'.smoother.initialized
                 /\ IF ~hand.smoother.initialized
                    THEN v = new
                    ELSE /\ 10000 * v - exact < 10000
                         /\ exact - 10000 * v < 10000
                         /\ (IF prev < new THEN prev ELSE new) <= v
                         /\ v <= (IF prev < new THEN new ELSE prev)
      ]_vars

\* 180 degrees, then 90 degrees smoothed with alpha = 0.2: 162 degrees
C25_Witness ==
    /\ ev.op = "ema_update"
    /\ ev.inp = 900
    /\ hand.smoother.alpha = START_ALPHA
    /\ hand.smoother.value = 1620
    /\ hand.smoother.initialized

\* C26: in a frame in which no hand is detected, process returns the angle
\* it returned for the previous frame (the initial angle on the first
\* frame), the gesture "neutral" and pause_progress 0, and the pause-hold
\* timer is reset to zero.
C26_NoHandKeepsAngle ==
    [][ ev'.op = "process" /\ ev'.tag = "no_hand"
          => /\ hand'.out.angle = hand.out.angle
             /\ hand'.out.gesture = "neutral"
             /\ hand'.out.pause_progress = 0
             /\ hand'.pause_timer = 0
             /\ hand'.current_angle = hand.current_angle
      ]_vars

\* a frame without hands after frames with the dominant hand at -135
\* degrees showing three fingers
C26_Witness ==
    /\ ev.op = "process"
    /\ ev.tag = "no_hand"
    /\ hand.frames >= 2
    /\ hand.current_gesture = "3"
    /\ hand.out = [ angle |-> -1350, gesture |-> "neutral",
                    pause_progress |-> 0 ]
    /\ hand.pause_timer = 0

\* C27: pause_progress reaches 1.0 only at the end of an uninterrupted run
\* of consecutive frames in the pause pose whose dt values sum to at least
\* PAUSE_ACTIVATION_TIME; a frame without the pose (one hand only, no
\* hand, two hands not in the pose) restarts the hold from zero.
C27_PauseNeedsUnbrokenHold ==
    /\ hand.out.pause_progress >= 100 => hand.hold >= PAUSE_ACTIVATION_TIME
    /\ (ev.op = "process" /\ ev.eff # "pose") => hand.pause_timer = 0

\* C28: the angle process returns for the engine is, on every frame from
\* the first on and for every orientation of the hand, a smoothed angle in
\* degrees in [0, 360).
C28_AngleInFullCircle ==
    /\ 0 <= hand.out.angle
    /\ hand.out.angle < 3600

\* the place _update_ai steers the paddle op to for the ball b, within the
\* field (tenths of a pixel), and the paddle's distance from it
AiTarget(op, b) ==
    clamp(b.y - SubPx(op.height \div 2), SubPx(GAME_AREA_Y),
          SubPx(GAME_AREA_Y + GAME_AREA_HEIGHT - op.height))

AiLag(y, target) ==
    IF SubPx(y) < target THEN target - SubPx(y) ELSE SubPx(y) - target

\* C29: in bot mode, in a playing tick that begins with the ball is_ghost
\* and not ghost_visible, the opponent update leaves the AI paddle where
\* it is; in every other bot-mode tick the AI paddle is moved toward the
\* ball's y (its distance from the target drops to 15% of what it was, up
\* to the pixel the rect truncates to).
C29_AiBlindToHiddenGhost ==
    [][ (ev'.op = "physics" /\ game_mode = "bot")
          => IF ball.is_ghost /\ ~ball.ghost_visible
             THEN ai'.y = ai.y
             ELSE 100 * AiLag(ai'.y, AiTarget(ai, ball))
                    <= 15 * AiLag(ai.y, AiTarget(ai, ball)) + 1000
      ]_vars

\* the ghost ball is hidden and the AI paddle has fallen behind it by more
\* than two of the ball's steps
C29_Witness ==
    /\ ev.op = "physics"
    /\ game_mode = "bot"
    /\ ball.is_ghost
    /\ ~ball.ghost_visible
    /\ AiLag(ai.y, AiTarget(ai, ball))
         > 2 * (IF ball.vy < 0 THEN -ball.vy ELSE ball.vy)

\* C30: between two start_game calls each paddle's score is a non-negative
\* integer that never decreases, changes only by +1 and only on a scoring
\* event (the ball leaving the field in a playing tick), and never exceeds
\* WIN_SCORE: no point is scored once the match is over.
C30_ScoresOnlyGrow ==
    /\ [](/\ player.score \in 0..WIN_SCORE
          /\ ai.score \in 0..WIN_SCORE)
    /\ [][ ev'.op # "start_game"
             => /\ player.score' \in { player.score, player.score + 1 }
                /\ ai.score' \in { ai.score, ai.score + 1 }
                /\ << player.score', ai.score' >> # << player.score, ai.score >>
                     => /\ state = "playing"
                        /\ ev'.op = "check_score"
                        /\ ev'.tag = IF player.score' # player.score
                                     THEN "right" ELSE "left"
                        /\ player.score' + ai.score'
                             = player.score + ai.score + 1
         ]_vars

\* the point that ends the match at WIN_SCORE to 1
C30_Witness ==
    /\ ev.op = "check_score"
    /\ ev.tag = "right"
    /\ state = "game_over"
    /\ player.score = WIN_SCORE
    /\ ai.score = 1

\* the range Paddle.move clamps its target to, in whole pixels
InPaddleRange(p) ==
    /\ GAME_AREA_Y <= p.y
    /\ p.y <= GAME_AREA_Y + GAME_AREA_HEIGHT - p.height

\* C31: after every Paddle.move(target_y), for the player's paddle and for
\* the AI paddle alike, the paddle's top y lies in [GAME_AREA_Y,
\* GAME_AREA_Y + GAME_AREA_HEIGHT - height]; for the AI paddle the new y
\* lies between its previous y and the clamped target (no overshoot).
C31_MoveStaysInField ==
    [][ ev'.op = "physics"
          => /\ InPaddleRange([ player' EXCEPT !.height = player.height ])
             /\ (game_mode = "bot" /\ ~(ball.is_ghost /\ ~ball.ghost_visible))
                  => /\ InPaddleRange([ ai' EXCEPT !.height = ai.height ])
                     /\ \/ /\ SubPx(ai.y) <= SubPx(ai'.y)
                           /\ SubPx(ai'.y) <= AiTarget(ai, ball)
                        \/ /\ AiTarget(ai, ball) <= SubPx(ai'.y)
                           /\ SubPx(ai'.y) <= SubPx(ai.y)
      ]_vars

\* C32: no double bounce.  A tick counts at most one hit; a hit is counted
\* for a paddle only while the ball moves toward that paddle's side and
\* leaves the ball moving away from it; and a tick without a hit and
\* without a respawn leaves the ball's horizontal direction as it is.  So
\* between two hits counted for the same paddle there is a hit on the
\* other paddle or a respawn.
C32_NoDoubleBounce ==
    [][ ev'.op = "physics"
          => /\ total_hits' \in { total_hits, total_hits + 1 }
             /\ ev'.tag = "player"
                  => /\ total_hits' = total_hits + 1
                     /\ ball.vx < 0
                     /\ ev'.eff = "none" => ball'.vx > 0
             /\ ev'.tag = "ai"
                  => /\ total_hits' = total_hits + 1
                     /\ ball.vx > 0
                     /\ ev'.eff = "none" => ball'.vx < 0
             /\ ev'.tag = "none"
                  => /\ total_hits' = total_hits
                     /\ ev'.eff = "none" => ball'.vx = ball.vx
      ]_vars

\* the player's paddle hits the ball again after the bot has returned it
C32_Witness ==
    /\ ev.op = "physics"
    /\ ev.tag = "player"
    /\ total_hits >= 3
    /\ ball.vx > 0
    /\ player.score = 0
    /\ ai.score = 0

\* C33: GameEngine.update called while the state is not playing (menu,
\* difficulty_select, paused, game_over) changes no engine field: state,
\* scores, winner_text, paddles, ball, math task, particles, level,
\* total_hits, base speed, sudden_death and the time string stay as they
\* are.
C33_UpdateIdleOutsidePlay ==
    [][ (ev'.op = "update" /\ state # "playing") => UNCHANGED engine_vars ]_vars

\* update called after the time limit in a match that is already over
C33_Witness ==
    /\ ev.op = "update"
    /\ ev.tag = "not_playing"
    /\ state = "game_over"
    /\ player.score = WIN_SCORE
    /\ now - start_time >= TIME_LIMIT

\* C34: time spent in the paused state does not count toward the match
\* timers.  For the match clock: when a match is resumed (not restarted)
\* from the pause menu, the elapsed match time is the one shown when the
\* pause began, which the tick that paused the match left in
\* game_time_str.
C34_PauseStopsClock ==
    [][ ( /\ state = "paused"
          /\ state' = "playing"
          /\ start_time' # now'
          /\ game_time_str # SUDDEN_DEATH_TEXT )
          => FormatTime(now' - start_time') = game_time_str
      ]_vars

\* C35: in every reachable state with state = game_over the two scores
\* differ, and winner_text is "PLAYER 1 WINS" exactly when the player's
\* score is the higher one and "PLAYER 2 WINS" exactly when the
\* opponent's is, whichever rule ended the match.
C35_WinnerHasHigherScore ==
    state = "game_over"
      => /\ player.score # ai.score
         /\ winner_text = "PLAYER 1 WINS" <=> player.score > ai.score
         /\ winner_text = "PLAYER 2 WINS" <=> ai.score > player.score

\* a match decided in sudden death by the opponent's point
C35_Witness ==
    /\ state = "game_over"
    /\ sudden_death
    /\ ev.op = "check_score"
    /\ ai.score = player.score + 1
    /\ ai.score < WIN_SCORE
    /\ winner_text = "PLAYER 2 WINS"

C37_AnswerOnlyWhileActive ==
    [][ /\ ev'.op = "check_answer"
          => (ev'.tag = "true"
                <=> (math_sys.active /\ ev'.inp = math_sys.correct_answer))
        /\ (ev'.op = "manage_math_tasks" /\ ev'.eff # "")
          => /\ math_sys.active
             /\ ~math_sys'.active
             /\ ev'.tag \in { "resolve_player", "resolve_opponent", "resolve_bot" }
        /\ (ev'.op = "manage_math_tasks" /\ ev'.tag = "resolve_player")
          => ev'.inp = math_sys.correct_answer
        /\ (ev'.op = "manage_math_tasks" /\ ev'.tag = "resolve_opponent")
          => (game_mode = "pvp" /\ math_sys.correct_answer \in ev'.inp)
        /\ (ev'.op = "manage_math_tasks" /\ ~math_sys.active)
          => /\ ev'.eff = ""
             /\ UNCHANGED << player, ai, ball, particles >>
      ]_vars

\* the answer 5 given again after the task 2 + 3 was resolved
C37_Witness ==
    /\ ev.op = "check_answer"
    /\ ev.tag = "false"
    /\ ev.inp = 5
    /\ ~math_sys.active
    /\ math_sys.correct_answer = 5
    /\ \E p \in { player, ai } : p.active_powerup_text # "None"

\* C38: as long as the engine stays in playing and ticks keep occurring
\* with advancing time, every active math task eventually becomes
\* inactive, at the latest in the first tick whose time is at or after the
\* task's start time plus its duration, in bot mode and in pvp mode.
C38_TaskEventuallyEnds ==
    /\ [][ ( /\ ev'.op = "manage_math_tasks"
             /\ math_sys.active
             /\ now' >= math_sys.task_start_time + math_sys.task_duration )
             => ~math_sys'.active
         ]_vars
    /\ (math_sys.active /\ state = "playing")
         ~> (~math_sys.active \/ state # "playing")

\* a pvp task that nobody answered has timed out
C38_Witness ==
    /\ ev.op = "manage_math_tasks"
    /\ ev.tag = "timeout_pvp"
    /\ game_mode = "pvp"
    /\ ~math_sys.active
    /\ now >= math_sys.task_start_time + math_sys.task_duration

\* C39: MenuSystem.update returns an item's action only on an update where
\* that item has been the matched target of the gesture on every update
\* since it was first selected and the dt accumulated since then is at
\* least hold_time (and then it does return it); an update with a
\* different or non-matching gesture restarts the hold from zero; every
\* update while the transition cooldown is running returns None; a
\* confirmed action clears the selection and starts the cooldown.
C39_HoldToConfirm ==
    [][ ev'.op = "menu_update"
          => LET cooling == menu.ignore_timer > 0
                 held == HeldBefore
                 target == ev'.inp.target
                 confirmed == ev'.tag # "None"
             IN  /\ cooling => ~confirmed
                 /\ ~cooling
                      => /\ confirmed
                               <=> ( /\ target # NoItem
                                     /\ held[1] = target
                                     /\ held[2] + ev'.inp.dt >= ev'.inp.hold_time )
                         /\ confirmed => ev'.tag = target.action
                         /\ (target = NoItem \/ target # held[1])
                              => menu'.selection_timer = 0
                 /\ confirmed
                      => /\ menu'.selected_item = NoItem
                         /\ menu'.selection_timer = 0
                         /\ menu'.ignore_timer = MENU_TRANSITION_DELAY
      ]_vars

\* RESUME confirmed after its gesture was held for PAUSE_SELECTION_TIME
C39_Witness ==
    /\ ev.op = "menu_update"
    /\ ev.tag = "resume"
    /\ menu.selected_item = NoItem
    /\ menu.ignore_timer = MENU_TRANSITION_DELAY

\* C40 as stated: a playing tick of the main loop whose camera read gave no
\* frame, so that update gets the empty hand_data, and that passes the
\* time-limit and the pause checks, completes without an exception and
\* leaves the player's paddle where it was.  The ticks past both checks
\* that carry a hand angle end with the TypeError of line 99; the others
\* are the ticks with the empty hand_data.
C40_NoFrameTickCompletes ==
    [][ ( /\ ev'.op = "update"
          /\ ev'.tag \notin { "time_limit", "paused", "not_playing" }
          /\ ev'.eff # "TypeError" )
            => /\ ev'.eff = ""
               /\ player' = player
      ]_vars

=============================================================================
